---- MODULE Spec2Model ----
(***************************************************************************)
(* QR export: the two PDF layout loops of handlers/qr_export.py            *)
(* (_layout_qrs_to_pdf_streaming, the 7 x 10 sticker sheet, and            *)
(* _layout_qrs_to_pdf, the auto-fit grid), the temporary files they write, *)
(* the logo cache, the canvas they draw on, and the part of lambda_handler *)
(* that publishes the document the streaming layout returns.               *)
(*                                                                         *)
(* Lengths are in thousandths of a point.  The input list is consumed by   *)
(* the for loop one element at a time; the model decides at the loop head  *)
(* whether a further element exists, so every list length up to MaxItems   *)
(* is covered and item_count is the length once the loop has ended.        *)
(*                                                                         *)
(* Spec      one call of a layout function, and lambda_handler's           *)
(*           publication of the document the streaming layout returns.     *)
(* EntrySpec lambda_handler from its first statement for one queue record: *)
(*           bucket resolution, generate_qr_pdf up to the canvas, then the *)
(*           streaming layout and the publication.                         *)
(* ConcSpec  two interleaved streaming layouts whose output paths share a  *)
(*           directory.                                                    *)
(* HandlerSpec  lambda_handler of qr_export.py and of csv_export.py over a *)
(*           whole event: the record loop, its except clauses and the      *)
(*           finally clause; a render is one step.                         *)
(* ToCsvSpec _to_csv of csv_export.py applied to a table name and rows.    *)
(***************************************************************************)
EXTENDS Integers, Sequences, FiniteSets, TLC

\* ------------------------------------------------------------------ bounds
MaxItems == 145
\* items of each of the two interleaved renders
MaxConcItems == 2
\* queue records of one event, and ids named by one record
MaxRecords == 2
MaxIds == 2
\* rows passed to _to_csv
MaxRows == 2

\* --------------------------------------------------------------- constants
None == "None"

\* reportlab.lib.pagesizes.A4, 595.28pt x 841.89pt
A4 == <<595276, 841890>>
page_width == A4[1]
page_height == A4[2]

\* _layout_qrs_to_pdf_streaming
cols_per_page == 7
rows_per_page == 10

\* _layout_qrs_to_pdf
margin_x == 40000
margin_y == 40000
label_height == 16000

\* The overlay paths of the inputs, and what the environment does when a
\* path is resolved: "ok", or the call inside the try block that raises.
Paths == {"A", "B"}
StreamingFaults == {"ok", "open", "save", "reader", "size"}
LayoutFaults == {"ok", "reader", "size"}

\* Exceptions a library call of the render can raise, as lambda_handler
\* tells them apart.
RenderExceptions == {"ValueError", "Exception"}

VARIABLES
  fn,               \* "streaming": _layout_qrs_to_pdf_streaming, "layout": _layout_qrs_to_pdf
  caller,           \* "lambda_handler" (through generate_qr_pdf) or "direct"
  QR_COLS_PER_ROW,  \* module-level configuration read by _layout_qrs_to_pdf
  shape,            \* the input: "plain", "same" or "alt" (see center_image, HasLabel)
  logoFault,        \* [Paths -> fault]: the environment's answer for each overlay path
  pc,               \* position in the function / handler
  col, row, page_num, item_count,
  logo_cache,       \* keys of the dict logo_cache
  logo_tmp_files,   \* keys of the dict logo_tmp_files; the value of key p is logo_tmp_path(p)
  reader,           \* local: TRUE when reader is an ImageReader, FALSE when None
  files,            \* names of the files existing in output_path.parent
  pages,            \* canvas: pages committed so far
  dirty,            \* canvas: the current page holds drawing operations
  saved,            \* canvas: save() has written the document
  drawn,            \* code images drawn, in order: [item, page, row, col], page 0-based
  overlayDrawn, outlineDrawn, labelDrawn,  \* item numbers that got each drawing
  resolves, hits, writes,  \* per path: cache misses entered, cache hits, temp-file writes
  teardowns,        \* runs of the logo temp-file cleanup loop
  failedAt, exc,    \* the step that raised out of the render ("" if none), and its class
  uploaded, updated, results,  \* lambda_handler: put_object done, exported_files updated, results list
  EXPORT_QR_BUCKET, FRONT_DOMAIN,  \* os.environ: None when unset
  USE_LOCAL_S3,     \* module-level flag read from the environment
  record_ids,       \* payload["record_ids"]: "empty", "absent" (no id exists in the table) or "present"
  default_bucket,   \* lambda_handler: the bucket resolved before the loop
  canvas,           \* the layout function has created its canvas.Canvas
  render_pc,        \* two interleaved streaming renders: [Renders -> position]
  render_cursor,    \* [Renders -> [col, row, page_num]]
  render_item_count,  \* [Renders -> item_count]
  render_logo_cache,  \* [Renders -> keys of that render's logo_cache]
  render_logo_tmp_files,  \* [Renders -> keys of that render's logo_tmp_files]
  parent_dir,       \* the files of the shared output_path.parent: [name, writer]
  foreign,          \* file operations of a render on a file the other wrote
  handler,          \* the lambda_handler running a whole event: "qr" or "csv"
  EXPORT_CSV_BUCKET, DB_HOST,  \* os.environ: None when unset
  Records,          \* event["Records"] as far as the loop has read it: [body, file_type, requested]
  rec,              \* index of the record the for loop is at (0 before the first)
  payload,          \* local: Unbound, or what json.loads returned and for which record
  file_type, exported_file_id,  \* locals parsed from the payload
  requested,        \* local: len(record_ids) of the payload
  fetched,          \* len(ids) rendered by generate_qr_pdf / len(rows) of _fetch_records
  tmp_pdfs,         \* records whose NamedTemporaryFile document exists on disk
  output_path,      \* local of lambda_handler: None until generate_qr_pdf returned
  uploads,          \* objects put into the bucket: [rec, key]
  download_url,     \* local: the key the URL was generated for
  updates,          \* exported_files rows set to upload_status 2: [rec, id, url]
  response,         \* the statusCode lambda_handler returned, Nil before
  product_codes,    \* argument of the streaming layout: [given, ids], the ids having a code
  labels,           \* label texts drawn by the streaming layout, in order: [kind, id]
  csv_table, csv_rows,  \* arguments of _to_csv: table name, rows as sequences of <<key, value>>
  csv_fieldnames,   \* local of _to_csv
  csv_out           \* the records written to the output of _to_csv, header first

vars == <<fn, caller, QR_COLS_PER_ROW, shape, logoFault, pc, col, row, page_num,
          item_count, logo_cache, logo_tmp_files, reader, files, pages, dirty,
          saved, drawn, overlayDrawn, outlineDrawn, labelDrawn, resolves, hits,
          writes, teardowns, failedAt, exc, uploaded, updated, results,
          EXPORT_QR_BUCKET, FRONT_DOMAIN, USE_LOCAL_S3, record_ids,
          default_bucket, canvas, render_pc, render_cursor, render_item_count,
          render_logo_cache, render_logo_tmp_files, parent_dir, foreign,
          handler, EXPORT_CSV_BUCKET, DB_HOST, Records, rec, payload, file_type,
          exported_file_id, requested, fetched, tmp_pdfs, output_path, uploads,
          download_url, updates, response, product_codes, labels, csv_table,
          csv_rows, csv_fieldnames, csv_out>>

env == <<EXPORT_QR_BUCKET, FRONT_DOMAIN, USE_LOCAL_S3, record_ids>>
entryv == <<default_bucket, canvas>>
concv == <<render_pc, render_cursor, render_item_count, render_logo_cache,
           render_logo_tmp_files, parent_dir, foreign>>
eventv == <<handler, EXPORT_CSV_BUCKET, DB_HOST, Records>>
localv == <<rec, payload, file_type, exported_file_id, requested, fetched, output_path, download_url>>
worldv == <<tmp_pdfs, uploads, updates, response>>
csvv == <<csv_table, csv_rows, csv_fieldnames, csv_out>>
batchv == <<eventv, localv, worldv, csvv, product_codes>>
config == <<fn, caller, QR_COLS_PER_ROW, shape, logoFault, env, entryv, concv, batchv>>
cursor == <<col, row, page_num>>
canvasv == <<pages, dirty, saved>>
logov == <<logo_cache, logo_tmp_files, resolves, hits, writes>>
drawv == <<drawn, overlayDrawn, outlineDrawn, labelDrawn, labels>>
handlerv == <<uploaded, updated, results>>

\* ------------------------------------------------------------------ inputs
\* center_image_path of the streaming render / item["center_image"] of item i
center_image(i) ==
  CASE shape = "plain" -> None
    [] shape = "same" -> "A"
    [] shape = "alt" -> IF i % 2 = 1 THEN "A" ELSE "B"

\* item.get("label") is not None (the streaming render always builds a label)
HasLabel(i) ==
  IF fn = "streaming" THEN TRUE
  ELSE CASE shape = "plain" -> FALSE
         [] shape = "same" -> TRUE
         [] shape = "alt" -> i % 2 = 1

UsedPaths ==
  CASE shape = "plain" -> {}
    [] shape = "same" -> {"A"}
    [] shape = "alt" -> {"A", "B"}

\* --------------------------------------------------------------- geometry
cols_Mutant == IF QR_COLS_PER_ROW \in {4, 5, 6, 7, 8} THEN QR_COLS_PER_ROW ELSE 6
cols == IF QR_COLS_PER_ROW \in {4, 5, 6, 7, 8} THEN QR_COLS_PER_ROW ELSE 4
cell_width == (page_width - margin_x * 2) \div cols
cell_height == cell_width + label_height

\* The sticker sheet of _layout_qrs_to_pdf_streaming.  Its lengths are
\* products of a number of millimetres with one decimal and MM_TO_PT =
\* 2.83465; they are kept exact here as multiples of a millionth of a point,
\* toPageUnits taking tenths of a millimetre.
MM_TO_PT == 283465
toPageUnits(tenths) == tenths * MM_TO_PT
\* A4 in millionths of a point
sticker_page_width == page_width * 1000
sticker_page_height == page_height * 1000
top_margin == toPageUnits(305)
left_margin == toPageUnits(230)
sticker_size == toPageUnits(200)
gap == toPageUnits(40)
qr_size == toPageUnits(150)
sticker_spacing_x == sticker_size + gap
sticker_spacing_y == sticker_size + gap
\* lines 219-221: the frame of the sticker, from the bottom left of the page
sticker_x_Mutant(c) == left_margin + (c * sticker_size)
sticker_x(c) == left_margin + (c * sticker_spacing_x)
sticker_y_bottom(r) == sticker_page_height - top_margin - (r * sticker_spacing_y) - sticker_size
sticker_y_top(r) == sticker_y_bottom(r) + sticker_size
\* lines 230-231: the code image, centred horizontally at the top of the sticker
qr_x(c) == sticker_x(c) + (sticker_size - qr_size) \div 2
qr_y(r) == sticker_y_top(r) - qr_size

\* line 198: a new page is needed before drawing
NeedsNewPage_Mutant(r) == r > rows_per_page
NeedsNewPage(r) == r >= rows_per_page

\* line 454: the next row would end below the bottom margin
PageFull_Mutant(r) == margin_y + (r + 2) * cell_height > page_height - margin_y
PageFull(r) == margin_y + (r + 1) * cell_height > page_height - margin_y

\* ------------------------------------------------------------- file names
StreamingTmpPath == "._qr_tmp_" \o ToString(page_num) \o "_" \o ToString(row) \o "_" \o ToString(col) \o ".png"
LayoutTmpPath == "._qr_tmp_" \o ToString(row) \o "_" \o ToString(col) \o ".png"
logo_tmp_path(p) == "._logo_resized_" \o p \o ".png"

IsLogoTmp(f) == f \in {logo_tmp_path(p) : p \in Paths}
QrTmpFiles == {f \in files : ~IsLogoTmp(f)}
LogoTmpFiles == {f \in files : IsLogoTmp(f)}

\* lines 327 and 451: the column index has reached the end of the row
ColumnFull_Mutant(c, limit) == c > limit
ColumnFull(c, limit) == c >= limit

\* tmp_path.unlink(missing_ok=True)
Unlink_Mutant(fs, f) == fs
Unlink(fs, f) == fs \ {f}

\* ------------------------------------------------------------ label text
\* product_codes: None, or a dict from record id to product code (a str);
\* the model keeps the dict's key set, item i has record id i
NoProductCodes == [given |-> FALSE, ids |-> {}]
OddIds == {i \in 1..MaxItems : i % 2 = 1}
ProductCodes == {NoProductCodes,
                 [given |-> TRUE, ids |-> {}],
                 [given |-> TRUE, ids |-> OddIds],
                 [given |-> TRUE, ids |-> 1..MaxItems]}
\* a label that is None
NoLabel == [kind |-> "none", id |-> 0]
\* if product_codes and record_id in product_codes: label = product_codes[record_id]
\* else: label = f"record_id: {record_id}"
label_Mutant(i) ==
  IF product_codes.given /\ product_codes.ids # {}
    THEN [kind |-> "product_code", id |-> i]
    ELSE [kind |-> "record_id", id |-> i]
label(i) ==
  IF product_codes.given /\ product_codes.ids # {} /\ i \in product_codes.ids
    THEN [kind |-> "product_code", id |-> i]
    ELSE [kind |-> "record_id", id |-> i]

\* --------------------------------------------- the state before the render
\* the locals of a layout function at its first statement, an empty output
\* directory and a handler that has not published anything
RenderStart ==
  /\ col = 0 /\ row = 0 /\ page_num = 1 /\ item_count = 0
  /\ logo_cache = {} /\ logo_tmp_files = {}
  /\ reader = FALSE
  /\ files = {}
  /\ pages = 0 /\ dirty = FALSE /\ saved = FALSE
  /\ drawn = <<>>
  /\ overlayDrawn = {} /\ outlineDrawn = {} /\ labelDrawn = {} /\ labels = <<>>
  /\ resolves = [p \in Paths |-> 0] /\ hits = [p \in Paths |-> 0] /\ writes = [p \in Paths |-> 0]
  /\ teardowns = 0
  /\ failedAt = "" /\ exc = ""
  /\ uploaded = FALSE /\ updated = FALSE /\ results = <<>>

\* two renders, each at the first statement of _layout_qrs_to_pdf_streaming,
\* with output paths in one empty directory
Renders == {1, 2}
ConcStart ==
  /\ render_pc = [r \in Renders |-> "for"]
  /\ render_cursor = [r \in Renders |-> [col |-> 0, row |-> 0, page_num |-> 1]]
  /\ render_item_count = [r \in Renders |-> 0]
  /\ render_logo_cache = [r \in Renders |-> {}]
  /\ render_logo_tmp_files = [r \in Renders |-> {}]
  /\ parent_dir = {}
  /\ foreign = {}

\* a lambda_handler that has not started on its event
\* `payload` before its first assignment
Unbound == [rec |-> 0, kind |-> "unbound"]
\* None where the value is otherwise a number of this model: a record index
\* standing for an id, a key or a URL; a count; a status code
Nil == 0
NoCount == -1
BatchStart ==
  /\ rec = 0
  /\ payload = Unbound
  /\ file_type = None /\ exported_file_id = Nil /\ requested = 0 /\ fetched = 0
  /\ output_path = Nil /\ download_url = Nil
  /\ tmp_pdfs = {} /\ uploads = <<>> /\ updates = <<>>
  /\ response = Nil
\* no call of _to_csv
NoCsv ==
  /\ csv_table = None /\ csv_rows = <<>> /\ csv_fieldnames = <<>> /\ csv_out = <<>>
\* no event: the specifications of a single render
NoEvent ==
  /\ handler = None
  /\ EXPORT_CSV_BUCKET = None /\ DB_HOST = "db"
  /\ Records = <<>>
  /\ BatchStart

\* ------------------------------------------------------------------- Init
Init ==
  /\ fn \in {"streaming", "layout"}
  /\ caller \in {"lambda_handler", "direct"}
  /\ fn = "layout" => caller = "direct"
  /\ QR_COLS_PER_ROW \in {0} \cup 3..9
  /\ fn = "streaming" => QR_COLS_PER_ROW = 4
  /\ shape \in {"plain", "same", "alt"}
  /\ fn = "streaming" => shape # "alt"
  /\ logoFault \in [Paths -> StreamingFaults]
  /\ \A p \in Paths : IF p \in UsedPaths
                        THEN fn = "layout" => logoFault[p] \in LayoutFaults
                        ELSE logoFault[p] = "ok"
  /\ pc = "for"
  /\ EXPORT_QR_BUCKET = "export-bucket" /\ FRONT_DOMAIN = "front" /\ USE_LOCAL_S3 = FALSE
  /\ record_ids = IF caller = "lambda_handler" THEN "present" ELSE None
  /\ default_bucket = IF caller = "lambda_handler" THEN EXPORT_QR_BUCKET ELSE None
  /\ canvas = TRUE
  /\ RenderStart
  /\ ConcStart
  /\ NoEvent
  /\ NoCsv
  /\ product_codes \in ProductCodes
  /\ (fn # "streaming" \/ shape # "plain") => product_codes = NoProductCodes

\* ------------------------------------------------------------- the canvas
\* c.showPage(): the current page is committed and a new one started
showPage ==
  /\ pages' = pages + 1
  /\ dirty' = FALSE
  /\ saved' = saved

\* a drawing operation on the current page
Draws ==
  /\ dirty' = TRUE
  /\ UNCHANGED <<pages, saved>>

\* c.save(): "if there is current data a showPage is executed automatically"
PagesAfterSave_Mutant(pg, d) == pg + 1
PagesAfterSave(pg, d) == IF d THEN pg + 1 ELSE pg

\* an exception leaves the function at `step`
Raise_Mutant(step, cls) ==
  /\ pc' = "save"
  /\ failedAt' = step
  /\ exc' = cls
Raise(step, cls) ==
  /\ pc' = "raised"
  /\ failedAt' = step
  /\ exc' = cls

\* except Exception inside the logo block: reader = None, img_w = img_h = 0
LogoFailure_Mutant(step) ==
  /\ reader' = FALSE
  /\ \E cls \in RenderExceptions : Raise(step, cls)
LogoFailure(step) ==
  /\ reader' = FALSE
  /\ pc' = "label"
  /\ UNCHANGED <<failedAt, exc>>

Bump(f, p) == [f EXCEPT ![p] = @ + 1]

\* ---------------------------------------- _layout_qrs_to_pdf_streaming
\* for record_id in record_ids, the page-break check and item_count += 1
Streaming_For ==
  /\ fn = "streaming" /\ pc = "for"
  /\ \/ /\ item_count < MaxItems
        /\ IF NeedsNewPage(row)
             THEN /\ showPage
                  /\ row' = 0 /\ col' = 0
                  /\ page_num' = page_num + 1
             ELSE UNCHANGED <<canvasv, cursor>>
        /\ item_count' = item_count + 1
        /\ pc' = "qr"
     \/ /\ caller = "lambda_handler" => item_count > 0
        /\ pc' = "save"
        /\ UNCHANGED <<canvasv, cursor, item_count>>
  /\ UNCHANGED <<config, logov, reader, files, drawv, teardowns, failedAt, exc, handlerv>>

\* _generate_qr_image, the sticker frame, img.resize and resized_img.save(tmp_path)
Streaming_Qr ==
  /\ fn = "streaming" /\ pc = "qr"
  /\ \/ /\ Draws
        /\ files' = files \cup {StreamingTmpPath}
        /\ pc' = "draw"
        /\ UNCHANGED <<failedAt, exc>>
     \/ /\ \E cls \in RenderExceptions : Raise("image", cls)
        /\ UNCHANGED <<files, canvasv>>
     \/ /\ Draws
        /\ \E cls \in RenderExceptions : Raise("resize_save", cls)
        /\ UNCHANGED files
  /\ UNCHANGED <<config, cursor, item_count, logov, reader, drawv, teardowns, handlerv>>

\* c.drawImage(str(tmp_path), ...)
Streaming_DrawImage ==
  /\ fn = "streaming" /\ pc = "draw"
  /\ \/ /\ Draws
        /\ drawn' = Append(drawn, [item |-> item_count, page |-> pages, row |-> row, col |-> col])
        /\ pc' = "unlink"
        /\ UNCHANGED <<failedAt, exc>>
     \/ /\ \E cls \in RenderExceptions : Raise("draw", cls)
        /\ UNCHANGED <<drawn, canvasv>>
  /\ UNCHANGED <<config, cursor, item_count, logov, reader, files,
                 overlayDrawn, outlineDrawn, labelDrawn, labels, teardowns, handlerv>>

\* tmp_path.unlink(missing_ok=True)
Streaming_Unlink ==
  /\ fn = "streaming" /\ pc = "unlink"
  /\ files' = Unlink(files, StreamingTmpPath)
  /\ pc' = "logo"
  /\ UNCHANGED <<config, cursor, item_count, logov, reader, canvasv, drawv,
                 teardowns, failedAt, exc, handlerv>>

\* if center_image_path: try: ... except Exception: reader = None
Streaming_Logo ==
  /\ fn = "streaming" /\ pc = "logo"
  /\ LET p == center_image(item_count) IN
     IF p = None
       THEN /\ pc' = "label"
            /\ UNCHANGED <<logov, reader, files, failedAt, exc>>
       ELSE IF p \notin logo_cache
         THEN /\ resolves' = Bump(resolves, p)
              /\ hits' = hits
              /\ CASE logoFault[p] = "open" ->
                        /\ LogoFailure("logo_load")
                        /\ UNCHANGED <<logo_cache, logo_tmp_files, writes, files>>
                   [] logoFault[p] = "save" ->
                        /\ LogoFailure("logo_load")
                        /\ UNCHANGED <<logo_cache, logo_tmp_files, writes, files>>
                   [] logoFault[p] = "reader" ->
                        /\ files' = files \cup {logo_tmp_path(p)}
                        /\ writes' = Bump(writes, p)
                        /\ logo_tmp_files' = logo_tmp_files \cup {p}
                        /\ LogoFailure("logo_load")
                        /\ UNCHANGED logo_cache
                   [] logoFault[p] = "size" ->
                        /\ files' = files \cup {logo_tmp_path(p)}
                        /\ writes' = Bump(writes, p)
                        /\ logo_tmp_files' = logo_tmp_files \cup {p}
                        /\ logo_cache' = logo_cache \cup {p}
                        /\ LogoFailure("logo_load")
                   [] logoFault[p] = "ok" ->
                        /\ files' = files \cup {logo_tmp_path(p)}
                        /\ writes' = Bump(writes, p)
                        /\ logo_tmp_files' = logo_tmp_files \cup {p}
                        /\ logo_cache' = logo_cache \cup {p}
                        /\ reader' = TRUE
                        /\ pc' = "logodraw"
                        /\ UNCHANGED <<failedAt, exc>>
         ELSE /\ hits' = Bump(hits, p)
              /\ UNCHANGED <<resolves, writes, logo_cache, logo_tmp_files, files>>
              /\ IF logoFault[p] = "size"
                   THEN LogoFailure("logo_load")
                   ELSE /\ reader' = TRUE
                        /\ pc' = "logodraw"
                        /\ UNCHANGED <<failedAt, exc>>
  /\ UNCHANGED <<config, cursor, item_count, canvasv, drawv, teardowns, handlerv>>

\* if reader and img_w > 0: c.drawImage(reader, ...) and c.rect(...)
Streaming_DrawLogo_Mutant ==
  /\ fn = "streaming" /\ pc = "logodraw"
  /\ \/ /\ overlayDrawn' = overlayDrawn \cup {item_count}
        /\ outlineDrawn' = IF item_count % 2 = 0 THEN outlineDrawn
                                                 ELSE outlineDrawn \cup {item_count}
        /\ pc' = "label"
        /\ UNCHANGED <<failedAt, exc>>
     \/ /\ \E cls \in RenderExceptions : Raise("logo_draw", cls)
        /\ UNCHANGED <<overlayDrawn, outlineDrawn>>
     \/ /\ overlayDrawn' = overlayDrawn \cup {item_count}
        /\ \E cls \in RenderExceptions : Raise("logo_rect", cls)
        /\ UNCHANGED outlineDrawn
  /\ UNCHANGED <<config, cursor, item_count, logov, reader, files, canvasv,
                 drawn, labelDrawn, labels, teardowns, handlerv>>
Streaming_DrawLogo ==
  /\ fn = "streaming" /\ pc = "logodraw"
  /\ \/ /\ overlayDrawn' = overlayDrawn \cup {item_count}
        /\ outlineDrawn' = outlineDrawn \cup {item_count}
        /\ pc' = "label"
        /\ UNCHANGED <<failedAt, exc>>
     \/ /\ \E cls \in RenderExceptions : Raise("logo_draw", cls)
        /\ UNCHANGED <<overlayDrawn, outlineDrawn>>
     \/ /\ overlayDrawn' = overlayDrawn \cup {item_count}
        /\ \E cls \in RenderExceptions : Raise("logo_rect", cls)
        /\ UNCHANGED outlineDrawn
  /\ UNCHANGED <<config, cursor, item_count, logov, reader, files, canvasv,
                 drawn, labelDrawn, labels, teardowns, handlerv>>

\* if label is not None: c.drawString(label_x, label_y, str(label))
Streaming_Label ==
  /\ fn = "streaming" /\ pc = "label"
  /\ \/ /\ IF label(item_count) # NoLabel
             THEN /\ labelDrawn' = labelDrawn \cup {item_count}
                  /\ labels' = Append(labels, label(item_count))
             ELSE UNCHANGED <<labelDrawn, labels>>
        /\ pc' = "advance"
        /\ UNCHANGED <<failedAt, exc>>
     \/ /\ label(item_count) # NoLabel
        /\ \E cls \in RenderExceptions : Raise("label", cls)
        /\ UNCHANGED <<labelDrawn, labels>>
  /\ UNCHANGED <<config, cursor, item_count, logov, reader, files, canvasv,
                 drawn, overlayDrawn, outlineDrawn, teardowns, handlerv>>

\* col += 1; if col >= cols_per_page: col = 0; row += 1
Streaming_Advance_Mutant ==
  /\ fn = "streaming" /\ pc = "advance"
  /\ IF ColumnFull(col + 1, cols_per_page)
       THEN /\ col' = 0
            /\ IF NeedsNewPage(row + 1)
                 THEN showPage /\ row' = 0 /\ page_num' = page_num + 1
                 ELSE row' = row + 1 /\ UNCHANGED <<canvasv, page_num>>
       ELSE col' = col + 1 /\ UNCHANGED <<row, page_num, canvasv>>
  /\ pc' = "for"
  /\ UNCHANGED <<config, item_count, logov, reader, files,
                 drawv, teardowns, failedAt, exc, handlerv>>
Streaming_Advance ==
  /\ fn = "streaming" /\ pc = "advance"
  /\ IF ColumnFull(col + 1, cols_per_page)
       THEN col' = 0 /\ row' = row + 1
       ELSE col' = col + 1 /\ row' = row
  /\ pc' = "for"
  /\ UNCHANGED <<config, page_num, item_count, logov, reader, files, canvasv,
                 drawv, teardowns, failedAt, exc, handlerv>>

\* c.save(): a page holding drawing operations is committed, the file written
Streaming_Save ==
  /\ fn = "streaming" /\ pc = "save"
  /\ \/ /\ pages' = PagesAfterSave(pages, dirty)
        /\ dirty' = FALSE
        /\ saved' = TRUE
        /\ pc' = "cleanup"
        /\ UNCHANGED <<failedAt, exc>>
     \/ /\ \E cls \in RenderExceptions : Raise("save", cls)
        /\ UNCHANGED canvasv
  /\ UNCHANGED <<config, cursor, item_count, logov, reader, files, drawv,
                 teardowns, handlerv>>

\* for logo_path in logo_tmp_files.values(): logo_path.unlink(missing_ok=True)
Streaming_Cleanup ==
  /\ fn = "streaming" /\ pc = "cleanup"
  /\ files' = files \ {logo_tmp_path(p) : p \in logo_tmp_files}
  /\ teardowns' = teardowns + 1
  /\ pc' = "returned"
  /\ UNCHANGED <<config, cursor, item_count, logov, reader, canvasv, drawv,
                 failedAt, exc, handlerv>>

\* ------------------------------------------------------ _layout_qrs_to_pdf
\* for item in image_list and item_count += 1
Layout_For_Mutant ==
  /\ fn = "layout" /\ pc = "for"
  /\ \/ /\ item_count < MaxItems
        /\ item_count' = item_count + 1
        /\ pc' = "qr"
        /\ UNCHANGED <<failedAt, exc>>
     \/ /\ IF item_count = 0
             THEN Raise("empty", "ValueError")
             ELSE pc' = "save" /\ UNCHANGED <<failedAt, exc>>
        /\ UNCHANGED item_count
  /\ UNCHANGED <<config, cursor, canvasv, logov, reader, files, drawv, teardowns, handlerv>>
Layout_For ==
  /\ fn = "layout" /\ pc = "for"
  /\ \/ /\ item_count < MaxItems
        /\ item_count' = item_count + 1
        /\ pc' = "qr"
     \/ /\ pc' = "save"
        /\ UNCHANGED item_count
  /\ UNCHANGED <<config, cursor, canvasv, logov, reader, files, drawv, teardowns,
                 failedAt, exc, handlerv>>

\* img = item["image"], img.resize and resized_img.save(tmp_path)
Layout_Qr ==
  /\ fn = "layout" /\ pc = "qr"
  /\ \/ /\ files' = files \cup {LayoutTmpPath}
        /\ pc' = "draw"
        /\ UNCHANGED <<failedAt, exc>>
     \/ /\ \E cls \in RenderExceptions : Raise("image", cls)
        /\ UNCHANGED files
     \/ /\ \E cls \in RenderExceptions : Raise("resize_save", cls)
        /\ UNCHANGED files
  /\ UNCHANGED <<config, cursor, item_count, canvasv, logov, reader, drawv,
                 teardowns, handlerv>>

\* c.drawImage(str(tmp_path), x, y, width=cell_width, height=cell_width)
Layout_DrawImage ==
  /\ fn = "layout" /\ pc = "draw"
  /\ \/ /\ Draws
        /\ drawn' = Append(drawn, [item |-> item_count, page |-> pages, row |-> row, col |-> col])
        /\ pc' = "unlink"
        /\ UNCHANGED <<failedAt, exc>>
     \/ /\ \E cls \in RenderExceptions : Raise("draw", cls)
        /\ UNCHANGED <<drawn, canvasv>>
  /\ UNCHANGED <<config, cursor, item_count, logov, reader, files,
                 overlayDrawn, outlineDrawn, labelDrawn, labels, teardowns, handlerv>>

\* tmp_path.unlink(missing_ok=True)
Layout_Unlink ==
  /\ fn = "layout" /\ pc = "unlink"
  /\ files' = Unlink(files, LayoutTmpPath)
  /\ pc' = "logo"
  /\ UNCHANGED <<config, cursor, item_count, logov, reader, canvasv, drawv,
                 teardowns, failedAt, exc, handlerv>>

\* if center_image: try: ... except Exception: reader = None
Layout_Logo ==
  /\ fn = "layout" /\ pc = "logo"
  /\ LET p == center_image(item_count) IN
     IF p = None
       THEN /\ pc' = "label"
            /\ UNCHANGED <<logov, reader, failedAt, exc>>
       ELSE IF p \notin logo_cache
         THEN /\ resolves' = Bump(resolves, p)
              /\ UNCHANGED <<hits, writes, logo_tmp_files>>
              /\ CASE logoFault[p] = "reader" ->
                        /\ LogoFailure("logo_load")
                        /\ UNCHANGED logo_cache
                   [] logoFault[p] = "size" ->
                        /\ logo_cache' = logo_cache \cup {p}
                        /\ LogoFailure("logo_load")
                   [] logoFault[p] = "ok" ->
                        /\ logo_cache' = logo_cache \cup {p}
                        /\ reader' = TRUE
                        /\ pc' = "logodraw"
                        /\ UNCHANGED <<failedAt, exc>>
         ELSE /\ hits' = Bump(hits, p)
              /\ UNCHANGED <<resolves, writes, logo_cache, logo_tmp_files>>
              /\ IF logoFault[p] = "size"
                   THEN LogoFailure("logo_load")
                   ELSE /\ reader' = TRUE
                        /\ pc' = "logodraw"
                        /\ UNCHANGED <<failedAt, exc>>
  /\ UNCHANGED <<config, cursor, item_count, files, canvasv, drawv, teardowns, handlerv>>

\* if reader and img_w > 0: c.drawImage(reader, ...) and c.rect(...)
Layout_DrawLogo ==
  /\ fn = "layout" /\ pc = "logodraw"
  /\ \/ /\ overlayDrawn' = overlayDrawn \cup {item_count}
        /\ outlineDrawn' = outlineDrawn \cup {item_count}
        /\ pc' = "label"
        /\ UNCHANGED <<failedAt, exc>>
     \/ /\ \E cls \in RenderExceptions : Raise("logo_draw", cls)
        /\ UNCHANGED <<overlayDrawn, outlineDrawn>>
     \/ /\ overlayDrawn' = overlayDrawn \cup {item_count}
        /\ \E cls \in RenderExceptions : Raise("logo_rect", cls)
        /\ UNCHANGED outlineDrawn
  /\ UNCHANGED <<config, cursor, item_count, logov, reader, files, canvasv,
                 drawn, labelDrawn, labels, teardowns, handlerv>>

\* if label is not None: c.drawCentredString(...)
Layout_Label ==
  /\ fn = "layout" /\ pc = "label"
  /\ IF HasLabel(item_count)
       THEN \/ /\ labelDrawn' = labelDrawn \cup {item_count}
               /\ pc' = "advance"
               /\ UNCHANGED <<failedAt, exc>>
            \/ /\ \E cls \in RenderExceptions : Raise("label", cls)
               /\ UNCHANGED labelDrawn
       ELSE /\ pc' = "advance"
            /\ UNCHANGED <<labelDrawn, failedAt, exc>>
  /\ UNCHANGED <<config, cursor, item_count, logov, reader, files, canvasv,
                 drawn, overlayDrawn, outlineDrawn, labels, teardowns, handlerv>>

\* col += 1; if col >= cols: col = 0; row += 1; if the next row does not fit: showPage, row = 0
Layout_Advance_Mutant ==
  /\ fn = "layout" /\ pc = "advance"
  /\ IF PageFull(row + 1) /\ row > 0
       THEN showPage /\ row' = 0 /\ col' = 0
       ELSE IF ColumnFull(col + 1, cols)
              THEN col' = 0 /\ row' = row + 1 /\ UNCHANGED canvasv
              ELSE col' = col + 1 /\ UNCHANGED <<row, canvasv>>
  /\ pc' = "for"
  /\ UNCHANGED <<config, page_num, item_count, logov, reader, files,
                 drawv, teardowns, failedAt, exc, handlerv>>
Layout_Advance_NoReset ==
  /\ fn = "layout" /\ pc = "advance"
  /\ IF ColumnFull(col + 1, cols)
       THEN /\ col' = 0
            /\ row' = row + 1
            /\ IF PageFull(row + 1) THEN showPage ELSE UNCHANGED canvasv
       ELSE /\ col' = col + 1
            /\ UNCHANGED <<row, canvasv>>
  /\ pc' = "for"
  /\ UNCHANGED <<config, page_num, item_count, logov, reader, files,
                 drawv, teardowns, failedAt, exc, handlerv>>
Layout_Advance ==
  /\ fn = "layout" /\ pc = "advance"
  /\ IF ColumnFull(col + 1, cols)
       THEN /\ col' = 0
            /\ IF PageFull(row + 1)
                 THEN showPage /\ row' = 0
                 ELSE row' = row + 1 /\ UNCHANGED canvasv
       ELSE /\ col' = col + 1
            /\ UNCHANGED <<row, canvasv>>
  /\ pc' = "for"
  /\ UNCHANGED <<config, page_num, item_count, logov, reader, files,
                 drawv, teardowns, failedAt, exc, handlerv>>

\* c.save()
Layout_Save ==
  /\ fn = "layout" /\ pc = "save"
  /\ \/ /\ pages' = PagesAfterSave(pages, dirty)
        /\ dirty' = FALSE
        /\ saved' = TRUE
        /\ pc' = "returned"
        /\ UNCHANGED <<failedAt, exc>>
     \/ /\ \E cls \in RenderExceptions : Raise("save", cls)
        /\ UNCHANGED canvasv
  /\ UNCHANGED <<config, cursor, item_count, logov, reader, files, drawv,
                 teardowns, handlerv>>

\* ------------------------------------------------- lambda_handler (QR export)
\* the except clauses: which error a raised exception is recorded as
ErrorKind(cls) ==
  IF cls \in {"KeyError", "ValueError", "JSONDecodeError"} THEN "invalid_message"
  ELSE IF cls = "DatabaseError" THEN "database_error"
  ELSE "unexpected_error"

renderv == <<cursor, item_count, logov, reader, files, canvasv, drawv, teardowns, failedAt, exc>>

ErrorResult(cls) == [status |-> "error", error |-> ErrorKind(cls)]
SuccessResult == [status |-> "ok", error |-> ""]

\* generate_qr_pdf raised: no upload, the except clause appends an error result
Handler_Except ==
  /\ caller = "lambda_handler" /\ pc = "raised"
  /\ results' = Append(results, ErrorResult(exc))
  /\ pc' = "handled"
  /\ UNCHANGED <<uploaded, updated>>
  /\ UNCHANGED <<config, renderv>>

\* _upload_to_s3(output_path, bucket, key)
Handler_Upload ==
  /\ caller = "lambda_handler" /\ pc = "returned"
  /\ \/ /\ uploaded' = TRUE
        /\ pc' = "url"
        /\ UNCHANGED results
     \/ /\ results' = Append(results, ErrorResult("Exception"))
        /\ pc' = "handled"
        /\ UNCHANGED uploaded
  /\ UNCHANGED updated
  /\ UNCHANGED <<config, renderv>>

\* _generate_download_url(bucket, key, presigned_ttl)
Handler_Url ==
  /\ caller = "lambda_handler" /\ pc = "url"
  /\ \/ /\ pc' = "update"
        /\ UNCHANGED results
     \/ /\ results' = Append(results, ErrorResult("Exception"))
        /\ pc' = "handled"
  /\ UNCHANGED <<uploaded, updated>>
  /\ UNCHANGED <<config, renderv>>

\* _update_exported_file(exported_file_id, download_url) and results.append
Handler_Update ==
  /\ caller = "lambda_handler" /\ pc = "update"
  /\ \/ /\ updated' = TRUE
        /\ results' = Append(results, SuccessResult)
     \/ /\ \E cls \in {"DatabaseError", "Exception"} :
             results' = Append(results, ErrorResult(cls))
        /\ UNCHANGED updated
  /\ pc' = "handled"
  /\ UNCHANGED uploaded
  /\ UNCHANGED <<config, renderv>>

\* ------------------------------------------------------------------- Next
Next ==
  \/ Streaming_For
  \/ Streaming_Qr
  \/ Streaming_DrawImage
  \/ Streaming_Unlink
  \/ Streaming_Logo
  \/ Streaming_DrawLogo
  \/ Streaming_Label
  \/ Streaming_Advance
  \/ Streaming_Save
  \/ Streaming_Cleanup
  \/ Layout_For
  \/ Layout_Qr
  \/ Layout_DrawImage
  \/ Layout_Unlink
  \/ Layout_Logo
  \/ Layout_DrawLogo
  \/ Layout_Label
  \/ Layout_Advance
  \/ Layout_Save
  \/ Handler_Except
  \/ Handler_Upload
  \/ Handler_Url
  \/ Handler_Update

Spec == Init /\ [][Next]_vars

\* ------------------------------- lambda_handler and generate_qr_pdf (entry)
\* what the environment can hold for the two required settings
BucketValues == {None, "", "export-bucket"}
DomainValues == {None, "front"}
\* os.getenv("LOCAL_S3_BUCKET", "s3-bucket")
LOCAL_S3_BUCKET == "s3-bucket"

\* lambda_handler: default_bucket = os.getenv("EXPORT_QR_BUCKET"); without it
\* the local bucket when USE_LOCAL_S3, else KeyError raised out of the handler
Handler_Bucket_Mutant ==
  /\ pc = "handler"
  /\ default_bucket' = IF EXPORT_QR_BUCKET \notin {None, ""} THEN EXPORT_QR_BUCKET
                       ELSE LOCAL_S3_BUCKET
  /\ pc' = "record"
  /\ UNCHANGED <<failedAt, exc>>
  /\ UNCHANGED <<fn, caller, QR_COLS_PER_ROW, shape, logoFault, env, canvas, concv, batchv>>
  /\ UNCHANGED <<cursor, item_count, logov, reader, files, canvasv, drawv, teardowns, handlerv>>
Handler_Bucket ==
  /\ pc = "handler"
  /\ IF EXPORT_QR_BUCKET \notin {None, ""}
       THEN /\ default_bucket' = EXPORT_QR_BUCKET
            /\ pc' = "record"
            /\ UNCHANGED <<failedAt, exc>>
       ELSE IF USE_LOCAL_S3
         THEN /\ default_bucket' = LOCAL_S3_BUCKET
              /\ pc' = "record"
              /\ UNCHANGED <<failedAt, exc>>
         ELSE /\ failedAt' = "bucket" /\ exc' = "KeyError"
              /\ pc' = "fatal"
              /\ UNCHANGED default_bucket
  /\ UNCHANGED <<fn, caller, QR_COLS_PER_ROW, shape, logoFault, env, canvas, concv, batchv>>
  /\ UNCHANGED <<cursor, item_count, logov, reader, files, canvasv, drawv, teardowns, handlerv>>

\* for record in Records: json.loads(record["body"]), payload["file_type"],
\* int(payload["exported_file_id"]); then generate_qr_pdf is called
Handler_Record ==
  /\ pc = "record"
  /\ \/ pc' = "generate" /\ UNCHANGED <<failedAt, exc>>
     \/ \E cls \in {"JSONDecodeError", "KeyError", "ValueError"} : Raise("payload", cls)
  /\ UNCHANGED <<config, cursor, item_count, logov, reader, files, canvasv, drawv,
                 teardowns, handlerv>>

\* generate_qr_pdf: front_domain = os.environ["FRONT_DOMAIN"]
Generate_FrontDomain ==
  /\ pc = "generate"
  /\ IF FRONT_DOMAIN = None
       THEN Raise("front_domain", "KeyError")
       ELSE pc' = "fetch" /\ UNCHANGED <<failedAt, exc>>
  /\ UNCHANGED <<config, cursor, item_count, logov, reader, files, canvasv, drawv,
                 teardowns, handlerv>>

\* ids = _fetch_ids(table, record_ids): ValueError for an empty list, else the
\* query, which the database may fail; then `if not ids: raise ValueError`
Generate_FetchIds ==
  /\ pc = "fetch"
  /\ CASE record_ids = "empty" -> Raise("fetch_ids", "ValueError")
       [] record_ids = "absent" ->
            \/ Raise("no_ids", "ValueError")
            \/ Raise("fetch_ids", "DatabaseError")
       [] record_ids = "present" ->
            \/ pc' = "layout" /\ UNCHANGED <<failedAt, exc>>
            \/ Raise("fetch_ids", "DatabaseError")
  /\ UNCHANGED <<config, cursor, item_count, logov, reader, files, canvasv, drawv,
                 teardowns, handlerv>>

\* _fetch_product_codes for table "products", QR_LOGO_PATH.exists(), the
\* NamedTemporaryFile, and the call of _layout_qrs_to_pdf_streaming up to
\* c = canvas.Canvas(str(output_path), pagesize=A4)
Generate_Layout ==
  /\ pc = "layout"
  /\ \/ /\ canvas' = TRUE
        /\ pc' = "for"
        /\ UNCHANGED <<failedAt, exc>>
     \/ /\ Raise("product_codes", "DatabaseError")
        /\ UNCHANGED canvas
  /\ UNCHANGED <<fn, caller, QR_COLS_PER_ROW, shape, logoFault, env, default_bucket, concv, batchv>>
  /\ UNCHANGED <<cursor, item_count, logov, reader, files, canvasv, drawv, teardowns, handlerv>>

EntryInit ==
  /\ fn = "streaming"
  /\ caller = "lambda_handler"
  /\ QR_COLS_PER_ROW = 4
  /\ shape \in {"plain", "same"}
  /\ logoFault \in [Paths -> StreamingFaults]
  /\ \A p \in Paths : p \notin UsedPaths => logoFault[p] = "ok"
  /\ pc = "handler"
  /\ EXPORT_QR_BUCKET \in BucketValues
  /\ FRONT_DOMAIN \in DomainValues
  /\ USE_LOCAL_S3 \in BOOLEAN
  /\ record_ids \in {"empty", "absent", "present"}
  /\ default_bucket = None
  /\ canvas = FALSE
  /\ RenderStart
  /\ ConcStart
  /\ NoEvent
  /\ NoCsv
  /\ product_codes = NoProductCodes

EntryNext ==
  \/ Handler_Bucket
  \/ Handler_Record
  \/ Generate_FrontDomain
  \/ Generate_FetchIds
  \/ Generate_Layout
  \/ Streaming_For
  \/ Streaming_Qr
  \/ Streaming_DrawImage
  \/ Streaming_Unlink
  \/ Streaming_Logo
  \/ Streaming_DrawLogo
  \/ Streaming_Label
  \/ Streaming_Advance
  \/ Streaming_Save
  \/ Streaming_Cleanup
  \/ Handler_Except
  \/ Handler_Upload
  \/ Handler_Url
  \/ Handler_Update

EntrySpec == EntryInit /\ [][EntryNext]_vars

\* ------------------- two interleaved runs of _layout_qrs_to_pdf_streaming
\* Each render has its own locals, canvas and logo cache; both are given the
\* same center_image_path and output paths in the same directory.  A step is
\* one file operation of the loop body.
qr_tmp_path(cur) ==
  "._qr_tmp_" \o ToString(cur.page_num) \o "_" \o ToString(cur.row) \o "_" \o ToString(cur.col) \o ".png"
\* the one overlay path both renders are called with
SharedLogo == "A"

Names == {f.name : f \in parent_dir}
WriterOf(n) == (CHOOSE f \in parent_dir : f.name = n).writer
\* render r applies op to file n: noted when another render wrote n
Touch(r, op, n) ==
  IF n \in Names /\ WriterOf(n) # r
    THEN foreign \cup {[op |-> op, by |-> r, name |-> n]}
    ELSE foreign
\* img.save(path): creates or overwrites
WriteFile(r, n) == {f \in parent_dir : f.name # n} \cup {[name |-> n, writer |-> r]}
RemoveFile(n) == {f \in parent_dir : f.name # n}

sequential == <<fn, caller, QR_COLS_PER_ROW, shape, logoFault, env, entryv, pc,
                cursor, item_count, logov, reader, files, canvasv, drawv,
                teardowns, failedAt, exc, handlerv, batchv>>

Conc_For(r) ==
  /\ render_pc[r] = "for"
  /\ \/ /\ render_item_count[r] < MaxConcItems
        /\ render_cursor' =
             IF NeedsNewPage(render_cursor[r].row)
               THEN [render_cursor EXCEPT ![r] = [col |-> 0, row |-> 0, page_num |-> @.page_num + 1]]
               ELSE render_cursor
        /\ render_item_count' = [render_item_count EXCEPT ![r] = @ + 1]
        /\ render_pc' = [render_pc EXCEPT ![r] = "qr"]
     \/ /\ render_pc' = [render_pc EXCEPT ![r] = "save"]
        /\ UNCHANGED <<render_cursor, render_item_count>>
  /\ UNCHANGED <<render_logo_cache, render_logo_tmp_files, parent_dir, foreign>>
  /\ UNCHANGED sequential

\* resized_img.save(tmp_path, "PNG", optimize=False)
Conc_Qr(r) ==
  /\ render_pc[r] = "qr"
  /\ foreign' = Touch(r, "overwrite", qr_tmp_path(render_cursor[r]))
  /\ parent_dir' = WriteFile(r, qr_tmp_path(render_cursor[r]))
  /\ render_pc' = [render_pc EXCEPT ![r] = "draw"]
  /\ UNCHANGED <<render_cursor, render_item_count, render_logo_cache, render_logo_tmp_files>>
  /\ UNCHANGED sequential

\* c.drawImage(str(tmp_path), ...): reads the file, raises when it is gone
Conc_DrawImage(r) ==
  /\ render_pc[r] = "draw"
  /\ foreign' = Touch(r, "draw", qr_tmp_path(render_cursor[r]))
  /\ render_pc' = [render_pc EXCEPT ![r] =
                     IF qr_tmp_path(render_cursor[r]) \in Names THEN "unlink" ELSE "raised"]
  /\ UNCHANGED <<render_cursor, render_item_count, render_logo_cache,
                 render_logo_tmp_files, parent_dir>>
  /\ UNCHANGED sequential

\* tmp_path.unlink(missing_ok=True)
Conc_Unlink(r) ==
  /\ render_pc[r] = "unlink"
  /\ foreign' = Touch(r, "delete", qr_tmp_path(render_cursor[r]))
  /\ parent_dir' = RemoveFile(qr_tmp_path(render_cursor[r]))
  /\ render_pc' = [render_pc EXCEPT ![r] = "logo"]
  /\ UNCHANGED <<render_cursor, render_item_count, render_logo_cache, render_logo_tmp_files>>
  /\ UNCHANGED sequential

\* if center_image_path not in logo_cache: logo_img.save(logo_tmp_path, ...),
\* logo_tmp_files[...] = logo_tmp_path, logo_cache[...] = ImageReader(...)
Conc_Logo(r) ==
  /\ render_pc[r] = "logo"
  /\ IF SharedLogo \notin render_logo_cache[r]
       THEN /\ foreign' = Touch(r, "overwrite", logo_tmp_path(SharedLogo))
            /\ parent_dir' = WriteFile(r, logo_tmp_path(SharedLogo))
            /\ render_logo_tmp_files' = [render_logo_tmp_files EXCEPT ![r] = @ \cup {SharedLogo}]
            /\ render_logo_cache' = [render_logo_cache EXCEPT ![r] = @ \cup {SharedLogo}]
       ELSE UNCHANGED <<foreign, parent_dir, render_logo_tmp_files, render_logo_cache>>
  /\ render_pc' = [render_pc EXCEPT ![r] = "advance"]
  /\ UNCHANGED <<render_cursor, render_item_count>>
  /\ UNCHANGED sequential

\* the logo and label drawing (no file operation) and col += 1 ...
Conc_Advance(r) ==
  /\ render_pc[r] = "advance"
  /\ render_cursor' = [render_cursor EXCEPT ![r] =
       IF ColumnFull(@.col + 1, cols_per_page)
         THEN [col |-> 0, row |-> @.row + 1, page_num |-> @.page_num]
         ELSE [col |-> @.col + 1, row |-> @.row, page_num |-> @.page_num]]
  /\ render_pc' = [render_pc EXCEPT ![r] = "for"]
  /\ UNCHANGED <<render_item_count, render_logo_cache, render_logo_tmp_files, parent_dir, foreign>>
  /\ UNCHANGED sequential

\* c.save() and the cleanup loop: if logo_path.exists(): logo_path.unlink(...)
Conc_SaveCleanup(r) ==
  /\ render_pc[r] = "save"
  /\ IF SharedLogo \in render_logo_tmp_files[r]
       THEN /\ foreign' = Touch(r, "delete", logo_tmp_path(SharedLogo))
            /\ parent_dir' = RemoveFile(logo_tmp_path(SharedLogo))
       ELSE UNCHANGED <<foreign, parent_dir>>
  /\ render_pc' = [render_pc EXCEPT ![r] = "returned"]
  /\ UNCHANGED <<render_cursor, render_item_count, render_logo_cache, render_logo_tmp_files>>
  /\ UNCHANGED sequential

ConcInit ==
  /\ fn = "streaming"
  /\ caller = "direct"
  /\ QR_COLS_PER_ROW = 4
  /\ shape = "same"
  /\ logoFault = [p \in Paths |-> "ok"]
  /\ pc = "concurrent"
  /\ EXPORT_QR_BUCKET = None /\ FRONT_DOMAIN = "front" /\ USE_LOCAL_S3 = FALSE
  /\ record_ids = None
  /\ default_bucket = None
  /\ canvas = TRUE
  /\ RenderStart
  /\ ConcStart
  /\ NoEvent
  /\ NoCsv
  /\ product_codes = NoProductCodes

ConcNext ==
  \/ \E r \in Renders : Conc_For(r)
  \/ \E r \in Renders : Conc_Qr(r)
  \/ \E r \in Renders : Conc_DrawImage(r)
  \/ \E r \in Renders : Conc_Unlink(r)
  \/ \E r \in Renders : Conc_Logo(r)
  \/ \E r \in Renders : Conc_Advance(r)
  \/ \E r \in Renders : Conc_SaveCleanup(r)

ConcSpec == ConcInit /\ [][ConcNext]_vars

\* ------------------------ lambda_handler over a whole event (QR and CSV)
\* The record loop of handlers/qr_export.py and handlers/csv_export.py.  The
\* render inside generate_qr_pdf is one step here (Qr_Layout); its inside is
\* Spec and EntrySpec.  Record k of the event has exported_file_id k, its
\* S3 key and download URL are identified by k.
BodyKinds == {"missing",       \* the record has no "body" key: KeyError
              "nonstring",     \* body is not a str: json.loads raises TypeError
              "badjson",       \* json.JSONDecodeError
              "nondict",       \* valid JSON that is not an object
              "nofiletype",    \* object without "file_type"
              "noexportid",    \* object without "exported_file_id"
              "badexportid",   \* int("abc"): ValueError
              "nullexportid",  \* int(None): TypeError
              "ok"}
\* config/csv_export/queries/__init__.py
QUERY_BUILDERS == {"users", "products", "categories", "manufacturers"}
\* builders declared build_query(record_ids, is_all_record)
TwoParameterBuilders == {"users", "categories", "manufacturers"}
\* the file types of the events: a two-parameter builder, the one-parameter
\* builder, and a type without builder
FileTypes == {"users", "products", "locations"}

EventRecords ==
  {[body |-> b, file_type |-> "users", requested |-> 1] : b \in BodyKinds \ {"ok"}}
    \cup {[body |-> "ok", file_type |-> f, requested |-> n] : f \in FileTypes, n \in 0..MaxIds}

\* the exported_file_id "abc" of a "badexportid" body
BadId == -1
\* isinstance(payload, dict) and payload.get(...)
IsDict(pl) == pl.kind \notin {"nondict"}
PayloadFileType(pl) ==
  IF pl.kind = "nofiletype" THEN None ELSE Records[pl.rec].file_type
PayloadExportedFileId(pl) ==
  CASE pl.kind \in {"noexportid", "nullexportid"} -> Nil
    [] pl.kind = "badexportid" -> BadId
    [] OTHER -> pl.rec

layoutv == <<fn, caller, QR_COLS_PER_ROW, shape, logoFault, env, canvas, cursor,
             item_count, logov, reader, files, canvasv, drawv, teardowns,
             uploaded, updated, concv, product_codes>>
fixedv == <<layoutv, csvv, handler, EXPORT_CSV_BUCKET, DB_HOST>>
untouched == <<fixedv, Records>>

\* an exception leaves the try block of the record
Throw(step, cls) ==
  /\ pc' = "caught"
  /\ failedAt' = step
  /\ exc' = cls

\* the finally clause of the QR handler: output_path.unlink(missing_ok=True)
Finally_Mutant == UNCHANGED tmp_pdfs
Finally ==
  IF handler = "qr"
    THEN tmp_pdfs' = tmp_pdfs \ {output_path}
    ELSE UNCHANGED tmp_pdfs

\* csv_export: default_bucket = os.environ["EXPORT_CSV_BUCKET"], or return 500
Csv_Bucket_Mutant ==
  /\ handler = "csv" /\ pc = "csv_handler"
  /\ default_bucket' = EXPORT_CSV_BUCKET
  /\ pc' = "record"
  /\ UNCHANGED <<untouched, localv, worldv, results, failedAt, exc>>
Csv_Bucket ==
  /\ handler = "csv" /\ pc = "csv_handler"
  /\ IF EXPORT_CSV_BUCKET = None
       THEN /\ response' = 500
            /\ pc' = "done"
            /\ UNCHANGED default_bucket
       ELSE /\ default_bucket' = EXPORT_CSV_BUCKET
            /\ pc' = "record"
            /\ UNCHANGED response
  /\ UNCHANGED <<untouched, localv, tmp_pdfs, uploads, updates, results, failedAt, exc>>

\* for record in event.get("Records", []), and the return after the loop;
\* the event is read one record at a time, Records holds those read so far
Event_For ==
  /\ handler \in {"qr", "csv"} /\ pc = "record"
  /\ \/ /\ Len(Records) < MaxRecords
        /\ \E r \in EventRecords : Records' = Append(Records, r)
        /\ rec' = rec + 1
        /\ pc' = "parse"
        /\ UNCHANGED response
     \/ /\ response' = 200
        /\ pc' = "done"
        /\ UNCHANGED <<rec, Records>>
  /\ UNCHANGED <<fixedv, default_bucket, payload, file_type, exported_file_id,
                 requested, fetched, output_path, download_url, tmp_pdfs, uploads,
                 updates, results, failedAt, exc>>

\* payload = json.loads(record["body"]); file_type = payload["file_type"];
\* record_ids = payload.get("record_ids", []); (CSV: if not record_ids: raise
\* ValueError); exported_file_id = int(payload["exported_file_id"])
Event_Parse ==
  /\ pc = "parse"
  /\ LET r == Records[rec]
         parsed == [rec |-> rec, kind |-> r.body]
         noIds == handler = "csv" /\ r.requested = 0
     IN CASE r.body = "missing" ->
               /\ Throw("body", "KeyError")
               /\ UNCHANGED <<payload, file_type, requested, exported_file_id>>
          [] r.body = "nonstring" ->
               /\ Throw("json", "TypeError")
               /\ UNCHANGED <<payload, file_type, requested, exported_file_id>>
          [] r.body = "badjson" ->
               /\ Throw("json", "JSONDecodeError")
               /\ UNCHANGED <<payload, file_type, requested, exported_file_id>>
          [] r.body = "nondict" ->
               /\ payload' = parsed
               /\ Throw("file_type", "TypeError")
               /\ UNCHANGED <<file_type, requested, exported_file_id>>
          [] r.body = "nofiletype" ->
               /\ payload' = parsed
               /\ Throw("file_type", "KeyError")
               /\ UNCHANGED <<file_type, requested, exported_file_id>>
          [] r.body \in {"noexportid", "badexportid", "nullexportid"} ->
               /\ payload' = parsed
               /\ file_type' = r.file_type
               /\ requested' = r.requested
               /\ IF noIds THEN Throw("record_ids", "ValueError")
                  ELSE Throw("exported_file_id",
                             CASE r.body = "noexportid" -> "KeyError"
                               [] r.body = "badexportid" -> "ValueError"
                               [] r.body = "nullexportid" -> "TypeError")
               /\ UNCHANGED exported_file_id
          [] r.body = "ok" ->
               /\ payload' = parsed
               /\ file_type' = r.file_type
               /\ requested' = r.requested
               /\ IF noIds
                    THEN /\ Throw("record_ids", "ValueError")
                         /\ UNCHANGED exported_file_id
                    ELSE /\ exported_file_id' = rec
                         /\ pc' = IF handler = "qr" THEN "generate_pdf" ELSE "fetch_records"
                         /\ UNCHANGED <<failedAt, exc>>
  /\ UNCHANGED <<untouched, default_bucket, rec, fetched, output_path, download_url,
                 worldv, results>>

\* generate_qr_pdf up to the NamedTemporaryFile: FRONT_DOMAIN, _fetch_ids,
\* `if not ids`, _fetch_product_codes for table "products"
Qr_Generate ==
  /\ handler = "qr" /\ pc = "generate_pdf"
  /\ IF FRONT_DOMAIN = None THEN
          Throw("front_domain", "KeyError") /\ UNCHANGED <<fetched, tmp_pdfs>>
     ELSE IF requested = 0 THEN
          Throw("fetch_ids", "ValueError") /\ UNCHANGED <<fetched, tmp_pdfs>>
     ELSE IF DB_HOST = None THEN
          Throw("get_connection", "KeyError") /\ UNCHANGED <<fetched, tmp_pdfs>>
     ELSE \/ Throw("fetch_ids", "DatabaseError") /\ UNCHANGED <<fetched, tmp_pdfs>>
          \/ Throw("no_ids", "ValueError") /\ UNCHANGED <<fetched, tmp_pdfs>>
          \/ /\ file_type = "products"
             /\ Throw("product_codes", "DatabaseError") /\ UNCHANGED <<fetched, tmp_pdfs>>
          \/ \E n \in 1..requested :
               /\ fetched' = n
               /\ tmp_pdfs' = tmp_pdfs \cup {rec}
               /\ pc' = "layout_pdf"
               /\ UNCHANGED <<failedAt, exc>>
  /\ UNCHANGED <<untouched, default_bucket, rec, payload, file_type, exported_file_id,
                 requested, output_path, download_url, uploads, updates, response, results>>

\* _layout_qrs_to_pdf_streaming(ids, ...) and `return output_path`
Qr_Layout ==
  /\ handler = "qr" /\ pc = "layout_pdf"
  /\ \/ /\ output_path' = rec
        /\ pc' = "upload"
        /\ UNCHANGED <<failedAt, exc>>
     \/ /\ \E cls \in RenderExceptions : Throw("layout", cls)
        /\ UNCHANGED output_path
  /\ UNCHANGED <<untouched, default_bucket, rec, payload, file_type, exported_file_id,
                 requested, fetched, download_url, worldv, results>>

\* lines of the csv_content of n rows: `if not rows: return ""`, else header and rows
csv_lines_Mutant(n) == n + 1
csv_lines(n) == IF n = 0 THEN 0 ELSE n + 1

\* what _fetch_records does with the builder of a file type: the call
\* build_query(record_ids) of a two-parameter builder raises TypeError
FetchPlan(ft) ==
  IF ft \in QUERY_BUILDERS
    THEN IF ft \in TwoParameterBuilders
           THEN [query |-> None, params |-> None, raises |-> "TypeError"]
           ELSE [query |-> ft, params |-> "record_ids", raises |-> None]
    ELSE [query |-> "default", params |-> "record_ids", raises |-> None]

\* rows = _fetch_records(file_type, record_ids); csv_content = _to_csv(table,
\* rows); if not csv_content: results.append(no_records); continue
Csv_Fetch ==
  /\ handler = "csv" /\ pc = "fetch_records"
  /\ IF requested = 0 THEN
          Throw("fetch_records", "ValueError") /\ UNCHANGED <<fetched, results>>
     ELSE IF FetchPlan(file_type).raises # None THEN
          Throw("build_query", FetchPlan(file_type).raises) /\ UNCHANGED <<fetched, results>>
     ELSE IF DB_HOST = None THEN
          Throw("get_connection", "KeyError") /\ UNCHANGED <<fetched, results>>
     ELSE \/ Throw("execute", "DatabaseError") /\ UNCHANGED <<fetched, results>>
          \/ \E n \in 0..requested :
               /\ fetched' = n
               /\ IF csv_lines(n) = 0
                    THEN /\ results' = Append(results,
                               [rec |-> rec, file_type |-> file_type,
                                exported_file_id |-> exported_file_id, from |-> rec,
                                error |-> None, record_count |-> 0, s3_url |-> Nil,
                                message |-> "no_records"])
                         /\ pc' = "record"
                    ELSE /\ pc' = "upload"
                         /\ UNCHANGED results
               /\ UNCHANGED <<failedAt, exc>>
  /\ UNCHANGED <<untouched, default_bucket, rec, payload, file_type, exported_file_id,
                 requested, output_path, download_url, worldv>>

\* key = _build_s3_key(...); _upload_to_s3(..., bucket, key)
Event_Upload ==
  /\ pc = "upload"
  /\ \/ /\ uploads' = Append(uploads, [rec |-> rec, key |-> rec])
        /\ pc' = "download_url"
        /\ UNCHANGED <<failedAt, exc, tmp_pdfs>>
     \/ /\ Throw("upload", "Exception")
        /\ Finally
        /\ UNCHANGED uploads
  /\ UNCHANGED <<untouched, default_bucket, localv, updates, response, results>>

\* download_url = _generate_download_url(bucket, key, presigned_ttl)
Event_Url ==
  /\ pc = "download_url"
  /\ \/ /\ download_url' = rec
        /\ pc' = "update"
        /\ UNCHANGED <<failedAt, exc, tmp_pdfs>>
     \/ /\ Throw("download_url", "Exception")
        /\ Finally
        /\ UNCHANGED download_url
  /\ UNCHANGED <<untouched, default_bucket, rec, payload, file_type, exported_file_id,
                 requested, fetched, output_path, uploads, updates, response, results>>

\* record_count of a success entry: len(record_ids) (QR), len(rows) (CSV)
record_count_Mutant == fetched
record_count == IF handler = "qr" THEN requested ELSE fetched

\* _update_exported_file(exported_file_id, download_url); results.append(...)
Event_Update_Mutant ==
  /\ pc = "update"
  /\ \/ /\ updates' = Append(Append(updates, [rec |-> rec, id |-> exported_file_id, url |-> download_url]),
                             [rec |-> rec, id |-> exported_file_id, url |-> download_url])
        /\ results' = Append(results,
              [rec |-> rec, file_type |-> file_type, exported_file_id |-> exported_file_id,
               from |-> rec, error |-> None, record_count |-> record_count,
               s3_url |-> download_url, message |-> None])
        /\ pc' = "record"
        /\ UNCHANGED <<failedAt, exc>>
     \/ /\ \E cls \in {"DatabaseError", "Exception"} : Throw("update", cls)
        /\ UNCHANGED <<updates, results>>
  /\ Finally
  /\ UNCHANGED <<untouched, default_bucket, localv, uploads, response>>
Event_Update ==
  /\ pc = "update"
  /\ \/ /\ updates' = Append(updates, [rec |-> rec, id |-> exported_file_id, url |-> download_url])
        /\ results' = Append(results,
              [rec |-> rec, file_type |-> file_type, exported_file_id |-> exported_file_id,
               from |-> rec, error |-> None, record_count |-> record_count,
               s3_url |-> download_url, message |-> None])
        /\ pc' = "record"
        /\ UNCHANGED <<failedAt, exc>>
     \/ /\ \E cls \in {"DatabaseError", "Exception"} : Throw("update", cls)
        /\ UNCHANGED <<updates, results>>
  /\ Finally
  /\ UNCHANGED <<untouched, default_bucket, localv, uploads, response>>

\* the identifiers an except clause reads from `payload`
ErrorEntry(kind) ==
  [rec |-> rec,
   file_type |-> IF IsDict(payload) THEN PayloadFileType(payload) ELSE None,
   exported_file_id |-> IF IsDict(payload) THEN PayloadExportedFileId(payload) ELSE Nil,
   from |-> IF IsDict(payload) THEN payload.rec ELSE 0,
   error |-> kind, record_count |-> NoCount, s3_url |-> Nil, message |-> None]

\* the except clauses; reading `payload` before its first assignment raises
\* UnboundLocalError out of the handler, and the CSV database_error clause
\* calls payload.get without the isinstance test
Event_Catch ==
  /\ pc = "caught"
  /\ LET kind == ErrorKind(exc) IN
     IF kind = "invalid_message"
       THEN /\ results' = Append(results,
                 [rec |-> rec, file_type |-> None, exported_file_id |-> Nil, from |-> 0,
                  error |-> kind, record_count |-> NoCount, s3_url |-> Nil, message |-> None])
            /\ pc' = "record"
            /\ failedAt' = "" /\ exc' = ""
       ELSE IF payload = Unbound
         THEN /\ pc' = "crashed"
              /\ exc' = "UnboundLocalError"
              /\ UNCHANGED <<results, failedAt>>
         ELSE IF handler = "csv" /\ kind = "database_error" /\ ~IsDict(payload)
           THEN /\ pc' = "crashed"
                /\ exc' = "AttributeError"
                /\ UNCHANGED <<results, failedAt>>
           ELSE /\ results' = Append(results, ErrorEntry(kind))
                /\ pc' = "record"
                /\ failedAt' = "" /\ exc' = ""
  /\ UNCHANGED <<untouched, default_bucket, localv, worldv>>

HandlerInit ==
  /\ fn = "streaming"
  /\ caller = "lambda_handler"
  /\ QR_COLS_PER_ROW = 4
  /\ shape = "plain"
  /\ logoFault = [p \in Paths |-> "ok"]
  /\ handler \in {"qr", "csv"}
  /\ pc = IF handler = "qr" THEN "handler" ELSE "csv_handler"
  /\ EXPORT_QR_BUCKET \in {None, "export-bucket"}
  /\ EXPORT_CSV_BUCKET \in {None, "csv-bucket"}
  /\ IF handler = "qr" THEN EXPORT_CSV_BUCKET = None ELSE EXPORT_QR_BUCKET = None
  /\ USE_LOCAL_S3 = FALSE
  /\ FRONT_DOMAIN \in DomainValues
  /\ handler = "csv" => FRONT_DOMAIN = None
  /\ DB_HOST \in {None, "db"}
  /\ record_ids = None
  /\ default_bucket = None
  /\ canvas = FALSE
  /\ Records = <<>>
  /\ RenderStart
  /\ ConcStart
  /\ BatchStart
  /\ NoCsv
  /\ product_codes = NoProductCodes

HandlerNext ==
  \/ Handler_Bucket
  \/ Csv_Bucket
  \/ Event_For
  \/ Event_Parse
  \/ Qr_Generate
  \/ Qr_Layout
  \/ Csv_Fetch
  \/ Event_Upload
  \/ Event_Url
  \/ Event_Update
  \/ Event_Catch

HandlerSpec == HandlerInit /\ [][HandlerNext]_vars

\* ---------------------------------------------------------------- _to_csv
\* config/csv_export/headers.py; the labels are Japanese in the source and
\* written in English here
TABLE_EXPORT_CONFIG ==
  [users |->
     [field_order |-> <<"name", "email", "role", "status", "updated_at">>,
      labels |-> [name |-> "Account name", email |-> "Mail address", role |-> "Role",
                  status |-> "Status", updated_at |-> "Updated at"]],
   products |->
     [field_order |-> <<"category_name", "product_name", "product_code",
                        "manufacturer_name", "updated_at">>,
      labels |-> [category_name |-> "Category", product_name |-> "Product name",
                  product_code |-> "Product code", manufacturer_name |-> "Manufacturer",
                  updated_at |-> "Updated at"]],
   categories |->
     [field_order |-> <<"name", "code", "label_color", "status", "updated_at">>,
      labels |-> [name |-> "Category name", code |-> "Code", label_color |-> "Label colour",
                  status |-> "Status", updated_at |-> "Updated at"]],
   manufacturers |->
     [field_order |-> <<"name", "code", "status", "updated_at">>,
      labels |-> [name |-> "Manufacturer name", code |-> "Code", status |-> "Status",
                  updated_at |-> "Updated at"]],
   locations |->
     [field_order |-> <<"name", "code", "status", "updated_at">>,
      labels |-> [name |-> "Location name", code |-> "Code", status |-> "Status",
                  updated_at |-> "Updated at"]],
   supplies |->
     [field_order |-> <<"category_name", "supply_name", "supply_code",
                        "manufacturer_name", "location_name", "updated_at">>,
      labels |-> [category_name |-> "Category", supply_name |-> "Supply name",
                  supply_code |-> "Supply code", manufacturer_name |-> "Manufacturer",
                  location_name |-> "Location", updated_at |-> "Updated at"]]]

\* config = TABLE_EXPORT_CONFIG.get(table, {}); config.get("field_order");
\* config.get("labels", {})
field_order(table) ==
  IF table \in DOMAIN TABLE_EXPORT_CONFIG THEN TABLE_EXPORT_CONFIG[table].field_order ELSE <<>>
labels_map(table) ==
  IF table \in DOMAIN TABLE_EXPORT_CONFIG THEN TABLE_EXPORT_CONFIG[table].labels ELSE <<>>

\* a row is a dict: its items in insertion order, <<key, value>>
Row_Full == << <<"id", "7">>, <<"name", "a">>, <<"email", "b,c">>, <<"role", "r">>,
               <<"status", "s">>, <<"updated_at", "t">> >>
Row_Sparse == << <<"email", "e">>, <<"name", None>> >>
Row_Code == << <<"code", "c">>, <<"name", "n">>, <<"note", "x">> >>
RowCandidates == {Row_Full, Row_Sparse, Row_Code}
CsvTables == {"users", "manufacturers", "orders"}
RowLists == UNION {[1..n -> RowCandidates] : n \in 0..MaxRows}

\* list(row.keys())
keys(rowd) == [i \in 1..Len(rowd) |-> rowd[i][1]]
\* rowd.get(field, default)
get(rowd, field, default) ==
  IF \E i \in 1..Len(rowd) : rowd[i][1] = field
    THEN rowd[CHOOSE i \in 1..Len(rowd) : rowd[i][1] = field][2]
    ELSE default
\* labels_map.get(field, field)
header_label_Mutant(table, field) == field
header_label(table, field) ==
  IF field \in DOMAIN labels_map(table) THEN labels_map(table)[field] ELSE field
\* the text csv.writer writes for a value: None is written as the empty string
cell(v) == IF v = None THEN "" ELSE v
\* reordered_rows.append({field: row.get(field) for field in field_order})
reordered(table, rowd) ==
  IF field_order(table) # <<>>
    THEN [i \in 1..Len(field_order(table)) |->
            <<field_order(table)[i], get(rowd, field_order(table)[i], None)>>]
    ELSE rowd
\* DictWriter.writerow(rowd) with extrasaction="ignore" and restval ""
writerow(fieldnames, rowd) ==
  [i \in 1..Len(fieldnames) |-> cell(get(rowd, fieldnames[i], ""))]

csv_rest == <<layoutv, handler, EXPORT_CSV_BUCKET, DB_HOST, Records, default_bucket,
              localv, worldv, results, failedAt, exc>>

\* rows = list(rows); if not rows: return ""; fieldnames; writer.writerow(header_row)
ToCsv_Header ==
  /\ pc = "to_csv"
  /\ IF csv_rows = <<>>
       THEN /\ pc' = "returned_csv"
            /\ UNCHANGED <<csv_fieldnames, csv_out>>
       ELSE LET fieldnames == IF field_order(csv_table) # <<>>
                                THEN field_order(csv_table)
                                ELSE keys(csv_rows[1])
            IN /\ csv_fieldnames' = fieldnames
               /\ csv_out' = <<[i \in 1..Len(fieldnames) |->
                                  cell(header_label(csv_table, fieldnames[i]))]>>
               /\ pc' = "writerows"
  /\ UNCHANGED <<csv_rest, csv_table, csv_rows>>

\* writer.writerows(rows), one row at a time
ToCsv_WriteRow ==
  /\ pc = "writerows"
  /\ Len(csv_out) - 1 < Len(csv_rows)
  /\ csv_out' = Append(csv_out,
                       writerow(csv_fieldnames, reordered(csv_table, csv_rows[Len(csv_out)])))
  /\ UNCHANGED <<csv_rest, csv_table, csv_rows, csv_fieldnames, pc>>

\* return output.getvalue()
ToCsv_Return ==
  /\ pc = "writerows"
  /\ Len(csv_out) - 1 = Len(csv_rows)
  /\ pc' = "returned_csv"
  /\ UNCHANGED <<csv_rest, csvv>>

ToCsvInit ==
  /\ fn = "streaming"
  /\ caller = "direct"
  /\ QR_COLS_PER_ROW = 4
  /\ shape = "plain"
  /\ logoFault = [p \in Paths |-> "ok"]
  /\ pc = "to_csv"
  /\ EXPORT_QR_BUCKET = None /\ FRONT_DOMAIN = None /\ USE_LOCAL_S3 = FALSE
  /\ record_ids = None
  /\ default_bucket = None
  /\ canvas = FALSE
  /\ RenderStart
  /\ ConcStart
  /\ NoEvent
  /\ product_codes = NoProductCodes
  /\ csv_table \in CsvTables
  /\ csv_rows \in RowLists
  /\ csv_fieldnames = <<>>
  /\ csv_out = <<>>

ToCsvNext ==
  \/ ToCsv_Header
  \/ ToCsv_WriteRow
  \/ ToCsv_Return

ToCsvSpec == ToCsvInit /\ [][ToCsvNext]_vars

\* ================================================================== claims
\* positions of the control flow
InItem == {"qr", "draw", "unlink", "logo", "logodraw", "label", "advance"}
AfterSave == {"cleanup", "returned", "url", "update"}

\* the number of rows whose bottom edge fits above the bottom margin
RowsThatFit ==
  CHOOSE r \in 0..20 :
    /\ margin_y + r * cell_height <= page_height - margin_y
    /\ margin_y + (r + 1) * cell_height > page_height - margin_y

\* items per page of the render in progress
ItemsPerPage == IF fn = "streaming" THEN 70 ELSE cols * RowsThatFit

\* The list drawn only grows, by one element at its end, so its last element
\* is checked in every state and the whole list once the loop has ended.
Recent == IF pc = "save" THEN 1..Len(drawn) ELSE {Len(drawn)} \ {0}

\* C1: in the sticker layout the k-th code image drawn is that of the k-th
\* input item, and input item i (0-based) is drawn on page i div 70, row
\* (i mod 70) div 7, column i mod 7.
C1_StickerCell ==
  fn = "streaming" =>
    /\ Len(drawn) \in {item_count - 1, item_count}
    /\ \A k \in Recent :
         /\ drawn[k].item = k
         /\ drawn[k].page = (k - 1) \div 70
         /\ drawn[k].row = ((k - 1) % 70) \div 7
         /\ drawn[k].col = (k - 1) % 7

C1_Witness ==
  /\ fn = "streaming"
  /\ pc = "save"
  /\ Len(drawn) = 142
  /\ drawn[142] = [item |-> 142, page |-> 2, row |-> 0, col |-> 1]

\* C2: in the auto grid with resolved column count c in 4..8 and K = c * R
\* items per page, R the number of rows that fit above the bottom margin,
\* input item i (0-based) is drawn on page i div K, row (i mod K) div c,
\* column i mod c; K is the same on every page.
C2_AutoGridCell ==
  fn = "layout" =>
    /\ cols \in 4..8
    /\ Len(drawn) \in {item_count - 1, item_count}
    /\ \A k \in Recent :
         LET K == cols * RowsThatFit IN
         /\ drawn[k].item = k
         /\ drawn[k].page = (k - 1) \div K
         /\ drawn[k].row = ((k - 1) % K) \div cols
         /\ drawn[k].col = (k - 1) % cols

C2_Witness ==
  /\ fn = "layout"
  /\ pc = "save"
  /\ QR_COLS_PER_ROW = 8
  /\ RowsThatFit = 9
  /\ Len(drawn) = 145
  /\ drawn[145] = [item |-> 145, page |-> 2, row |-> 0, col |-> 0]

\* C3: whenever an item is being drawn 0 <= col < columns and 0 <= row <
\* rows; col < columns also holds after every advance; in the sticker layout
\* row never exceeds rowsPerPage and is below it from the page-break check
\* to the advance.
C3_CursorInBounds ==
  LET columns == IF fn = "streaming" THEN 7 ELSE cols
      rows == IF fn = "streaming" THEN 10 ELSE RowsThatFit
  IN /\ pc \in InItem => 0 <= col /\ col < columns /\ 0 <= row /\ row < rows
     /\ \A k \in Recent :
          /\ 0 <= drawn[k].col /\ drawn[k].col < columns
          /\ 0 <= drawn[k].row /\ drawn[k].row < rows
     /\ pc = "for" => 0 <= col /\ col < columns
     /\ fn = "streaming" => row <= rows
     /\ fn = "layout" => row < rows

\* a full sticker page: row equals rowsPerPage between the advance and the
\* page-break check of the next item
C3_Witness ==
  /\ fn = "streaming"
  /\ pc = "for"
  /\ row = 10 /\ col = 0
  /\ Len(drawn) = 140

\* C4: a saved document has ceil(itemCount / itemsPerPage) pages; the
\* sticker layout with 70 items has one page, with 71 items two pages, the
\* 71st item at the top left of the second page.
C4_PageCount ==
  (saved /\ pc \in AfterSave) =>
    /\ pages = (item_count + ItemsPerPage - 1) \div ItemsPerPage
    /\ fn = "streaming" /\ item_count = 70 => pages = 1
    /\ fn = "streaming" /\ item_count = 71 =>
         /\ pages = 2
         /\ drawn[71] = [item |-> 71, page |-> 1, row |-> 0, col |-> 0]

\* 71 stickers: saved with two pages, the 71st at the top left of page 2
C4_Witness ==
  /\ fn = "streaming"
  /\ saved /\ pc = "cleanup"
  /\ item_count = 71
  /\ pages = 2 /\ page_num = 2
  /\ drawn[71] = [item |-> 71, page |-> 1, row |-> 0, col |-> 0]

\* C5: when a failure raised during a render reaches the caller, no temporary
\* file of that render is left: neither the per-item code-image file nor a
\* resized-logo file of the logo cache.
C5_NoTempFileAfterFailure ==
  pc = "raised" => files = {}

\* C6: the resized-logo temp files are torn down exactly once, at document
\* finalization: a file once written exists while items are drawn, the
\* cleanup runs at most once and only after the save, and when the render is
\* over, whether or not a draw failed, no resized-logo file is left.
C6_LogoTeardownOnce ==
  /\ teardowns <= 1
  /\ teardowns = 1 => saved
  /\ pc \in InItem \cup {"for", "save", "cleanup"} =>
       \A p \in logo_tmp_files : logo_tmp_path(p) \in files
  /\ pc \in {"returned", "raised"} =>
       /\ LogoTmpFiles = {}
       /\ writes # [p \in Paths |-> 0] => teardowns = 1

\* C7: at most one per-item code-image temp file exists at any time, and the
\* file written for an item is gone right after its draw call has returned:
\* it exists only between its save and its unlink, never while the overlay
\* or the label is drawn, at the loop head or at the end of the document.
C7_ScopedItemTmp ==
  /\ Cardinality(QrTmpFiles) <= 1
  /\ pc \in {"logo", "logodraw", "label", "advance", "for", "qr", "save"} \cup AfterSave =>
       QrTmpFiles = {}
  /\ pc \in {"draw", "unlink"} =>
       QrTmpFiles = {IF fn = "streaming" THEN StreamingTmpPath ELSE LayoutTmpPath}

\* the file of item 2 has been written, drawn and removed before the overlay
\* of item 2 is resolved
C7_Witness ==
  /\ pc = "logo"
  /\ item_count = 2
  /\ Len(drawn) = 2
  /\ QrTmpFiles = {}

\* C8: the document is saved only on the success path: once a step of the
\* render has raised, save() has not been and is never invoked, nothing is
\* uploaded, exported_files is not updated, and the handler records an error
\* result for the message.
C8_FinalizedOnlyOnSuccess ==
  /\ failedAt # "" =>
       /\ ~saved /\ ~uploaded /\ ~updated
       /\ pc \in {"raised", "handled"}
       /\ failedAt \in {"image", "resize_save", "draw", "logo_draw", "logo_rect", "label", "save"}
       /\ pc = "handled" => Len(results) = 1 /\ results[1].status = "error"
  /\ saved => failedAt = "" /\ pc \in AfterSave \cup {"handled"}
  /\ uploaded \/ updated => saved

C8_Witness ==
  /\ caller = "lambda_handler"
  /\ pc = "handled"
  /\ failedAt = "image"
  /\ item_count = 3
  /\ Len(drawn) = 2
  /\ ~saved /\ ~uploaded /\ ~updated
  /\ results = <<[status |-> "error", error |-> "unexpected_error"]>>

\* item i references an overlay path whose resolution fails
Unreadable(i) == center_image(i) # None /\ logoFault[center_image(i)] # "ok"
\* the items whose label step is behind the control flow
Completed == IF pc \in InItem \ {"advance"} \/ failedAt \notin {"", "save"}
               THEN item_count - 1 ELSE item_count

\* C9: an overlay path that cannot be opened, decoded or read never makes the
\* render raise; an item referencing it gets no overlay image and no outline,
\* and once the item is complete its code image and its label are drawn.
C9_OverlayFailureNotFatal ==
  /\ failedAt # "logo_load"
  /\ pc = "logodraw" => ~Unreadable(item_count)
  /\ \A i \in IF pc = "save" THEN 1..item_count ELSE {item_count} \ {0} :
       Unreadable(i) =>
         /\ i \notin overlayDrawn /\ i \notin outlineDrawn
         /\ i <= Completed => /\ Len(drawn) >= i /\ drawn[i].item = i
                              /\ HasLabel(i) => i \in labelDrawn

\* three items referencing a missing overlay file: saved with three code
\* images, three labels and no overlay
C9_Witness ==
  /\ fn = "streaming"
  /\ shape = "same" /\ logoFault["A"] = "open"
  /\ saved /\ failedAt = ""
  /\ item_count = 3
  /\ Len(drawn) = 3
  /\ labelDrawn = {1, 2, 3}
  /\ overlayDrawn = {} /\ outlineDrawn = {}

\* C10: an overlay path is resolved exactly once per render: over the items
\* that referenced it there is one resolution and otherwise cache hits, and
\* its resized-logo temp file is written at most once.
C10_ResolvedOncePerPath ==
  \A p \in Paths :
    /\ resolves[p] <= 1
    /\ writes[p] <= 1
    /\ resolves[p] + hits[p] >= 1 => hits[p] = resolves[p] + hits[p] - 1

\* C11: a render of zero items draws nothing and commits no page, and still
\* saves the document: after the loop of an empty input nothing is drawn, no
\* page is committed, the function has saved once it is past save(), and
\* nothing but save() itself can have raised.
C11_EmptyInputSaved ==
  (item_count = 0 /\ pc # "for") =>
    /\ drawn = <<>> /\ overlayDrawn = {} /\ outlineDrawn = {} /\ labelDrawn = {}
    /\ pages = 0 /\ ~dirty /\ files = {}
    /\ pc \in {"save", "cleanup", "returned", "raised"}
    /\ pc = "raised" => failedAt = "save"
    /\ pc \in {"cleanup", "returned"} <=> saved

C11_Witness ==
  /\ fn = "layout"
  /\ item_count = 0
  /\ pc = "returned"
  /\ saved
  /\ pages = 0 /\ drawn = <<>>

\* C13: a saved document holds exactly one code image per input item, the
\* k-th drawn being that of the k-th item: none skipped, none drawn twice.
C13_NoTruncation ==
  saved =>
    /\ Len(drawn) = item_count
    /\ pc \in {"cleanup", "returned"} => \A k \in 1..item_count : drawn[k].item = k

C13_Witness ==
  /\ fn = "layout"
  /\ saved
  /\ item_count = 145
  /\ Len(drawn) = 145
  /\ drawn[145].item = 145

\* C14: of two interleaved renders writing into one directory, neither
\* overwrites, draws from or deletes a temporary file the other created.
C14_NoForeignFile == foreign = {}

InRender == pc \in InItem \cup {"for", "save", "cleanup"}
\* a showPage() is executed by this step (save()'s implicit one excluded)
PageBreak == pages' = pages + 1 /\ pc # "save"
StickerPerPage == cols_per_page * rows_per_page

C17_State ==
  fn = "streaming" =>
    /\ (InRender /\ ~saved /\ item_count > 0) =>
         pages = (item_count - 1) \div StickerPerPage
    /\ (InRender /\ item_count = 0) => pages = 0
    /\ pc = "save" =>
         \A p \in 0..pages :
           Cardinality({k \in 1..Len(drawn) : drawn[k].page = p}) <= StickerPerPage
C17_Step ==
  (fn = "streaming" /\ pages' # pages /\ pc # "save") =>
    /\ PageBreak
    /\ pc = "for" /\ pc' = "qr"
    /\ item_count' = item_count + 1
    /\ row = rows_per_page /\ col = 0
    /\ item_count = (pages + 1) * StickerPerPage
    /\ Len(drawn) = item_count /\ drawn' = drawn
    /\ drawn[item_count].page = pages
    /\ item_count \in labelDrawn
\* C17: in the sticker grid a page is committed only at the head of the loop
\* body of a further item, when the 70 items of the page are completely drawn
\* and before anything of the next item is drawn; before save() the number of
\* committed pages is (items - 1) div 70, and no page holds more than 70.
C17_BreakBeforeDraw == []C17_State /\ [][C17_Step]_vars

C17_Witness ==
  /\ fn = "streaming"
  /\ pc = "qr"
  /\ item_count = 71
  /\ pages = 1 /\ row = 0 /\ col = 0
  /\ Len(drawn) = 70 /\ drawn[70].page = 0

\* the row below row r would end under the bottom margin
NextRowOverflows(r) == margin_y + (r + 2) * cell_height > page_height - margin_y

C18_State ==
  fn = "layout" =>
    \A k \in Recent :
      page_height - margin_y - (drawn[k].row + 1) * cell_height >= margin_y
C18_Step ==
  fn = "layout" =>
    /\ (pages' # pages /\ pc # "save") =>
         /\ PageBreak
         /\ pc = "advance" /\ pc' = "for"
         /\ col + 1 = cols /\ col' = 0 /\ row' = 0
         /\ NextRowOverflows(row)
    /\ (pc = "advance" /\ col + 1 = cols /\ NextRowOverflows(row)) => PageBreak
    /\ (pc = "advance" /\ pc' = "save") => FALSE
    /\ (pc = "for" /\ pc' = "save" /\ item_count > 0 /\ col = 0 /\ row = 0) =>
         /\ ~dirty
         /\ pages = item_count \div ItemsPerPage
         /\ item_count % ItemsPerPage = 0
\* C18: in the auto grid a page is committed only by the advance that wraps
\* the column to 0, and exactly when the row after the one just filled would
\* end below the bottom margin; every drawn cell has its bottom edge at or
\* above the bottom margin; after the last item of a full page the page is
\* committed although no item follows.
C18_BreakAfterWrap == []C18_State /\ [][C18_Step]_vars

C18_Witness ==
  /\ fn = "layout"
  /\ QR_COLS_PER_ROW = 5
  /\ pc = "save"
  /\ item_count = 30
  /\ pages = 1 /\ ~dirty
  /\ row = 0 /\ col = 0

\* the limit of the column index of the running layout function
ColLimit == IF fn = "streaming" THEN cols_per_page ELSE cols
\* lexicographic order on (page, row, col)
LexLess(a, b) ==
  \/ a.page < b.page
  \/ a.page = b.page /\ a.row < b.row
  \/ a.page = b.page /\ a.row = b.row /\ a.col < b.col

C19_State ==
  /\ Len(drawn) >= 2 =>
       LexLess(drawn[Len(drawn) - 1], drawn[Len(drawn)])
  /\ pc = "save" =>
       Cardinality({<<drawn[k].page, drawn[k].row, drawn[k].col>> : k \in 1..Len(drawn)})
         = Len(drawn)
C19_Step ==
  /\ pages' >= pages /\ page_num' >= page_num
  /\ pc = "advance" =>
       /\ col + 1 < ColLimit => col' = col + 1 /\ row' = row /\ pages' = pages
       /\ col + 1 = ColLimit => col' = 0 /\ (row' = row + 1 \/ PageBreak)
  /\ (pages' # pages /\ pc # "save") =>
       /\ PageBreak
       /\ row' = 0 /\ col' = 0
       /\ fn = "streaming" => row >= rows_per_page /\ page_num' = page_num + 1
       /\ fn = "layout" => NextRowOverflows(row)
  /\ (fn = "streaming" /\ pc = "for" /\ pc' = "qr" /\ row >= rows_per_page) => PageBreak
  /\ page_num' # page_num => PageBreak
  /\ (pc # "advance" /\ ~PageBreak) => cursor' = cursor
\* C19: an advance increments col and wraps it to 0 with the next row at the
\* column count; the page count never decreases and grows by one exactly when
\* a page-break condition fires, leaving row = 0 and col = 0; successive drawn
\* items are at strictly increasing (page, row, col), so no two share a cell.
C19_CursorMonotonic == []C19_State /\ [][C19_Step]_vars

C19_Witness ==
  /\ fn = "layout"
  /\ QR_COLS_PER_ROW = 8
  /\ pc = "for"
  /\ item_count = 73
  /\ pages = 1 /\ row = 0 /\ col = 1
  /\ drawn[72] = [item |-> 72, page |-> 0, row |-> 8, col |-> 7]
  /\ drawn[73] = [item |-> 73, page |-> 1, row |-> 0, col |-> 0]

\* the items of which all operations are behind the control flow
Finished(i) == i < item_count \/ (i = item_count /\ pc \in {"for", "save", "cleanup", "returned", "url", "update", "handled"} /\ failedAt \in {"", "save"})

C20_State ==
  fn = "streaming" =>
    /\ pc = "qr" => Len(drawn) = item_count - 1
    /\ pc = "draw" => Len(drawn) = item_count - 1 /\ StreamingTmpPath \in files
    /\ pc \in {"qr", "draw", "unlink", "logo", "logodraw"} =>
         item_count \notin overlayDrawn \cup outlineDrawn \cup labelDrawn
    /\ pc \in {"unlink", "logo", "logodraw", "label", "advance"} =>
         Len(drawn) = item_count /\ drawn[item_count].item = item_count
    /\ pc = "logodraw" => center_image(item_count) # None /\ reader
    /\ pc = "label" =>
         /\ item_count \notin labelDrawn
         /\ item_count \in overlayDrawn <=> item_count \in outlineDrawn
    /\ pc = "advance" => item_count \in labelDrawn
    /\ pc \in {"for", "save"} =>
         Len(drawn) = item_count /\ labelDrawn = 1..item_count
    /\ overlayDrawn \subseteq 1..item_count
    /\ outlineDrawn \subseteq overlayDrawn
    /\ \A i \in overlayDrawn :
         /\ center_image(i) # None
         /\ Finished(i) => i \in outlineDrawn
         /\ i \notin outlineDrawn => failedAt = "logo_rect" /\ i = item_count
C20_Step ==
  fn = "streaming" =>
    /\ item_count' # item_count =>
         /\ pc = "for" /\ pc' = "qr" /\ item_count' = item_count + 1
         /\ item_count > 0 => item_count \in labelDrawn
    /\ (pc = "for" /\ pc' = "qr") => pages' = pages + (IF row >= rows_per_page THEN 1 ELSE 0)
    /\ files' # files /\ pc = "qr" => pc' = "draw" /\ drawn' = drawn
    /\ drawn' # drawn =>
         /\ pc = "draw" /\ pc' = "unlink"
         /\ Len(drawn') = item_count /\ drawn'[item_count].item = item_count
    /\ overlayDrawn' # overlayDrawn =>
         /\ pc = "logodraw"
         /\ overlayDrawn' = overlayDrawn \cup {item_count}
    /\ outlineDrawn' # outlineDrawn =>
         /\ pc = "logodraw" /\ pc' = "label"
         /\ outlineDrawn' = outlineDrawn \cup {item_count}
         /\ item_count \in overlayDrawn'
    /\ labelDrawn' # labelDrawn =>
         /\ pc = "label" /\ pc' = "advance"
         /\ labelDrawn' = labelDrawn \cup {item_count}
    /\ (<<col, row>>' # <<col, row>> /\ pages' = pages) =>
         pc = "advance" /\ pc' = "for"
\* C20: in the streaming render the steps of an item happen in the order
\* page-break check, image production, code-image draw, overlay and outline
\* (only for a resolved overlay), label, advance; the next item starts only
\* when the label of the current one is drawn; every item whose steps are
\* complete has an outline if and only if it has an overlay image.
C20_ItemOrder == []C20_State /\ [][C20_Step]_vars

C20_Witness ==
  /\ fn = "streaming"
  /\ shape = "same" /\ logoFault["A"] = "ok"
  /\ pc = "for"
  /\ item_count = 2
  /\ Len(drawn) = 2
  /\ overlayDrawn = {1, 2} /\ outlineDrawn = {1, 2}
  /\ labelDrawn = {1, 2}
  /\ col = 2 /\ row = 0

\* the export of the record has not touched the canvas, the output directory,
\* the bucket or the exported_files table
NothingDone ==
  /\ ~canvas
  /\ drawn = <<>> /\ pages = 0 /\ ~dirty /\ ~saved
  /\ files = {}
  /\ ~uploaded /\ ~updated

\* C12: generate_qr_pdf given an empty record_ids list, or ids of which none
\* exists, does not raise ValueError but returns a saved empty document.
C12_EmptyIdsEmptyDocument ==
  record_ids \in {"empty", "absent"} =>
    ~(pc = "raised" /\ exc = "ValueError" /\ failedAt \in {"fetch_ids", "no_ids"})

\* C16 as stated: with EXPORT_QR_BUCKET or FRONT_DOMAIN unset the export does
\* nothing: no canvas, no drawing, no upload, no status update.
C16_UnsetMeansNothingDone ==
  (EXPORT_QR_BUCKET \in {None, ""} \/ FRONT_DOMAIN = None) => NothingDone

\* C16 (amended): with EXPORT_QR_BUCKET unset and USE_LOCAL_S3 off the handler
\* raises KeyError before its record loop, nothing done and no result written;
\* with FRONT_DOMAIN unset generate_qr_pdf raises KeyError at its first
\* statement, nothing done, and the record gets an invalid_message result;
\* with EXPORT_QR_BUCKET unset and USE_LOCAL_S3 on the bucket is LOCAL_S3_BUCKET
\* and the export goes on.
C16_ConfigErrorBeforeDrawing ==
  /\ (EXPORT_QR_BUCKET \in {None, ""} /\ ~USE_LOCAL_S3) =>
       /\ NothingDone /\ results = <<>>
       /\ pc \in {"handler", "fatal"}
       /\ pc = "fatal" => exc = "KeyError" /\ failedAt = "bucket"
  /\ pc = "fatal" => EXPORT_QR_BUCKET \in {None, ""} /\ ~USE_LOCAL_S3
  /\ FRONT_DOMAIN = None =>
       /\ NothingDone
       /\ pc \in {"handler", "fatal", "record", "generate", "raised", "handled"}
       /\ pc = "handled" => results = <<ErrorResult("KeyError")>>
  /\ failedAt \in {"bucket", "front_domain"} =>
       NothingDone /\ exc = "KeyError" /\ pc \in {"fatal", "raised", "handled"}
  /\ (EXPORT_QR_BUCKET \in {None, ""} /\ USE_LOCAL_S3 /\ pc \notin {"handler"}) =>
       default_bucket = LOCAL_S3_BUCKET
  /\ canvas => default_bucket \notin {None, ""} /\ FRONT_DOMAIN # None

C16_Witness ==
  /\ FRONT_DOMAIN = None
  /\ EXPORT_QR_BUCKET = "export-bucket"
  /\ pc = "handled"
  /\ failedAt = "front_domain" /\ exc = "KeyError"
  /\ results = <<ErrorResult("KeyError")>>
  /\ NothingDone

\* ------------------------------------------- claims on the record loop
InLoop == handler \in {"qr", "csv"}
\* the result entry of record k, if it has one
EntriesOf(k) == {i \in 1..Len(results) : results[i].rec = k}
UpdatesOf(k) == {i \in 1..Len(updates) : updates[i].rec = k}
UploadsOf(k) == {i \in 1..Len(uploads) : uploads[i].rec = k}

\* C21: in both handlers the exported_files update of a record happens at most
\* once, only after the upload of that record's artifact returned, with the
\* record's own exported_file_id and the URL generated for that upload; a
\* record whose generation, upload, URL creation or update failed, or that
\* had no rows, has no update.
C21_UpdateAfterPublication ==
  InLoop =>
    /\ \A k \in 1..MaxRecords : Cardinality(UpdatesOf(k)) <= 1
    /\ \A i \in 1..Len(updates) :
         LET u == updates[i] IN
           /\ u.rec \in 1..rec
           /\ u.id = u.rec
           /\ \E j \in 1..Len(uploads) : uploads[j].rec = u.rec /\ uploads[j].key = u.url
    /\ \A i \in 1..Len(results) :
         (results[i].error # None \/ results[i].message = "no_records")
           => UpdatesOf(results[i].rec) = {}
    /\ pc \in {"parse", "generate_pdf", "layout_pdf", "fetch_records", "upload",
               "download_url", "update", "caught"} => UpdatesOf(rec) = {}
    /\ Len(updates) <= Len(uploads)

\* one record was published and recorded, another was uploaded but its URL
\* or update failed
C21_Witness ==
  /\ InLoop /\ pc = "done"
  /\ Len(updates) = 1 /\ Len(uploads) = 2
  /\ \E i \in 1..Len(results) : results[i].error # None /\ UploadsOf(results[i].rec) # {}

\* C22: once the bucket is configured the handler never raises out of the
\* record loop, and it returns statusCode 200 with exactly one result entry
\* per record of the event, in input order.
C22_PerRecordIsolation ==
  InLoop =>
    /\ pc # "crashed"
    /\ (pc = "done" /\ response = 200) =>
         /\ Len(results) = Len(Records)
         /\ \A i \in 1..Len(results) : results[i].rec = i

\* the identifiers record k's own body holds
OwnFileType(k) ==
  IF Records[k].body \in {"missing", "nonstring", "badjson", "nondict", "nofiletype"}
    THEN None ELSE Records[k].file_type
OwnExportedFileId(k) ==
  IF Records[k].body \in {"missing", "nonstring", "badjson", "nondict"}
    THEN Nil ELSE PayloadExportedFileId([rec |-> k, kind |-> Records[k].body])

\* C23: an error result entry of record k carries None or record k's own
\* file_type and exported_file_id, never identifiers parsed from another
\* record of the event.
C23_ErrorAttribution ==
  InLoop =>
    \A i \in 1..Len(results) :
      LET e == results[i] IN
        e.error # None =>
          /\ e.from \in {0, e.rec}
          /\ e.file_type \in {None, OwnFileType(e.rec)}
          /\ e.exported_file_id \in {Nil, OwnExportedFileId(e.rec)}

\* C24: in the QR handler no temporary PDF created for a record exists any
\* more when the handler goes on to the next record or returns.
C24_TempPdfDeleted ==
  handler = "qr" => (pc \in {"record", "parse", "done"} => tmp_pdfs = {})

\* C25: for every file type registered in QUERY_BUILDERS and non-empty
\* record_ids, _fetch_records takes query and parameters from that type's
\* builder and reaches the query execution; only an unregistered file type
\* gets the default SELECT *.
C25_FetchDispatch ==
  handler = "csv" =>
    /\ (pc = "fetch_records" /\ requested > 0) =>
         FetchPlan(file_type) =
           IF file_type \in QUERY_BUILDERS
             THEN [query |-> file_type, params |-> "record_ids", raises |-> None]
             ELSE [query |-> "default", params |-> "record_ids", raises |-> None]
    /\ (pc = "caught" /\ failedAt = "build_query") => file_type \notin QUERY_BUILDERS

\* the malformed messages: body not valid JSON, file_type or exported_file_id
\* missing, (CSV) record_ids empty
Malformed(k) ==
  \/ Records[k].body \in {"badjson", "nofiletype", "noexportid"}
  \/ handler = "csv" /\ Records[k].body = "ok" /\ Records[k].requested = 0
\* any message that is not a well-formed export request with ids
NotWellFormed(k) == Records[k].body # "ok" \/ Records[k].requested = 0

\* C26: a malformed message yields an invalid_message entry with None
\* identifiers, no upload and no update; and an invalid_message entry is
\* produced only for a malformed message, not for a configuration or
\* database-side failure.
C26_InvalidMessageOnlyMalformed ==
  InLoop =>
    \A i \in 1..Len(results) :
      LET e == results[i] IN
        /\ Malformed(e.rec) =>
             /\ e.error = "invalid_message"
             /\ e.file_type = None /\ e.exported_file_id = Nil
             /\ UploadsOf(e.rec) = {} /\ UpdatesOf(e.rec) = {}
        /\ e.error = "invalid_message" => NotWellFormed(e.rec)

\* C27: when the CSV fetch of a well-formed message returns no rows, the
\* csv_content is empty (no header line), the result entry has record_count
\* 0, s3_url None and message no_records, and the record has neither an
\* upload nor an update; a record with rows never gets such an entry.
C27_NoRecords ==
  handler = "csv" =>
    /\ pc \in {"upload", "download_url", "update"} => fetched > 0
    /\ (pc = "record" /\ Len(results) > 0 /\ results[Len(results)].rec = rec
          /\ results[Len(results)].message = "no_records")
         => fetched = 0 /\ csv_lines(fetched) = 0
    /\ \A i \in 1..Len(results) :
         LET e == results[i] IN
           /\ e.error = None => (e.message = "no_records" <=> e.record_count = 0)
           /\ e.message = "no_records" =>
                /\ e.s3_url = Nil /\ e.error = None
                /\ Records[e.rec].body = "ok" /\ Records[e.rec].requested > 0
                /\ UploadsOf(e.rec) = {} /\ UpdatesOf(e.rec) = {}

\* a record without rows, followed by a record that was exported
C27_Witness ==
  /\ handler = "csv" /\ pc = "done"
  /\ Len(results) = 2
  /\ results[1].message = "no_records" /\ results[1].record_count = 0
  /\ results[2].error = None /\ results[2].record_count > 0
  /\ Len(uploads) = 1 /\ Len(updates) = 1

\* C30: in a successful QR result entry record_count is the number of QR
\* codes rendered, that is the number of ids the record fetch returned.
C30_RecordCountIsRendered ==
  (handler = "qr" /\ pc = "record" /\ Len(results) > 0) =>
    LET e == results[Len(results)] IN
      (e.rec = rec /\ e.error = None) => e.record_count = fetched

C28_Columns ==
  IF csv_table \in DOMAIN TABLE_EXPORT_CONFIG
    THEN TABLE_EXPORT_CONFIG[csv_table].field_order
    ELSE [i \in 1..Len(csv_rows[1]) |-> csv_rows[1][i][1]]
\* the value of a key in a row, empty when the key is missing or None
C28_Value(rowd, key) ==
  LET found == {i \in 1..Len(rowd) : rowd[i][1] = key /\ rowd[i][2] # None}
  IN IF found = {} THEN "" ELSE rowd[CHOOSE i \in found : TRUE][2]

\* C28: for non-empty rows _to_csv returns one header record and one record
\* per input row, each with exactly the columns of the table's field_order in
\* that order (extra keys dropped, missing keys empty), or the keys of the
\* first row for a table without configuration; a header cell is the label
\* of the field, or the field name when there is no label.
C28_ColumnShaping ==
  (pc = "returned_csv" /\ csv_rows # <<>>) =>
    /\ Len(csv_out) = Len(csv_rows) + 1
    /\ \A r \in 1..Len(csv_out) : Len(csv_out[r]) = Len(C28_Columns)
    /\ \A i \in 1..Len(C28_Columns) :
         csv_out[1][i] =
           IF csv_table \in DOMAIN TABLE_EXPORT_CONFIG
                /\ C28_Columns[i] \in DOMAIN TABLE_EXPORT_CONFIG[csv_table].labels
             THEN TABLE_EXPORT_CONFIG[csv_table].labels[C28_Columns[i]]
             ELSE C28_Columns[i]
    /\ \A k \in 1..Len(csv_rows) : \A i \in 1..Len(C28_Columns) :
         csv_out[k + 1][i] = C28_Value(csv_rows[k], C28_Columns[i])

\* a configured table with a row holding an extra key and a row lacking keys
C28_Witness ==
  /\ pc = "returned_csv"
  /\ csv_table = "users"
  /\ csv_rows = <<Row_Full, Row_Sparse>>
  /\ csv_out = << <<"Account name", "Mail address", "Role", "Status", "Updated at">>,
                  <<"a", "b,c", "r", "s", "t">>,
                  <<"", "e", "", "", "">> >>

\* C32: when EXPORT_CSV_BUCKET is not set the CSV handler returns statusCode
\* 500 without entering the record loop: no record is read, nothing is
\* fetched, uploaded or updated, and no result entry is written.
C32_CsvBucketUnset ==
  (handler = "csv" /\ EXPORT_CSV_BUCKET = None) =>
    /\ pc \in {"csv_handler", "done"}
    /\ pc = "done" => response = 500
    /\ pc = "csv_handler" => response = Nil
    /\ Records = <<>> /\ rec = 0 /\ payload = Unbound
    /\ fetched = 0
    /\ uploads = <<>> /\ updates = <<>> /\ results = <<>>
    /\ default_bucket = None

C32_Witness ==
  /\ handler = "csv" /\ EXPORT_CSV_BUCKET = None
  /\ pc = "done" /\ response = 500
  /\ Records = <<>> /\ results = <<>>

\* two squares of side sticker_size with bottom left corners (x1, y1) and
\* (x2, y2) share no interior point
C31_Apart(x1, y1, x2, y2) ==
  \/ x1 + sticker_size <= x2 \/ x2 + sticker_size <= x1
  \/ y1 + sticker_size <= y2 \/ y2 + sticker_size <= y1

====
